---- MODULE Spec2Model ----
(***************************************************************************)
(* A model of the linear-mcp tool server (src/src/index.ts) and of its     *)
(* GitHub client (src/src/utils/github.ts).                                *)
(*                                                                         *)
(* Strings are sequences of one-character strings, so that the regular     *)
(* expressions, String.includes and the template literals of the source    *)
(* are computed character by character.  An optional value (a field that   *)
(* may be undefined) is a sequence of length at most one: None is          *)
(* undefined, Some(v) is the value v.                                      *)
(*                                                                         *)
(* Every action is one run of the handler between two awaits: it starts    *)
(* when the awaited remote call responds (the response is chosen with \E), *)
(* runs the code up to the next await, and records the remote call issued  *)
(* there in calls.                                                         *)
(***************************************************************************)
EXTENDS Integers, Sequences, FiniteSets, TLC

----------------------------------------------------------------------------
(* Optional values and JavaScript truthiness of strings.                   *)

None == <<>>

Some(v) == <<v>>

\* !x for an optional string x: undefined and "" are falsy
Truthy(o) == o # None /\ o[1] # <<>>

\* x || d for an optional string x
OrElse(o, d) == IF Truthy(o) THEN o[1] ELSE d

\* x ?? d for an optional value x
Coalesce(o, d) == IF o # None THEN o[1] ELSE d

----------------------------------------------------------------------------
(* String.prototype.includes: needle occurs in hay as a substring.         *)

Includes(hay, needle) ==
  \E i \in 1..(Len(hay) - Len(needle) + 1) :
    SubSeq(hay, i, i + Len(needle) - 1) = needle

\* the number of occurrences of needle in hay
Occurrences(hay, needle) ==
  Cardinality({ i \in 1..(Len(hay) - Len(needle) + 1) :
                  SubSeq(hay, i, i + Len(needle) - 1) = needle })

----------------------------------------------------------------------------
(* The markdown image scanner: /!\[.*?\]\((.*?)\)/g and /\((.*?)\)/.       *)
(* "." matches every character but a line break; ".*?" is lazy.            *)

\* the least k >= from with text[k] = ")" and no line break in from..k-1; 0 if none
RECURSIVE CloseParen(_, _)
CloseParen(text, from) ==
  IF from > Len(text) THEN 0
  ELSE IF text[from] = ")" THEN from
  ELSE IF text[from] = "\n" THEN 0
  ELSE CloseParen(text, from + 1)

\* the least j >= from where "](" starts and the rest "(.*?)\)" matches; 0 if none
RECURSIVE AltEnd(_, _)
AltEnd(text, from) ==
  IF from + 1 > Len(text) THEN 0
  ELSE IF text[from] = "]" /\ text[from + 1] = "(" /\ CloseParen(text, from + 2) # 0
       THEN from
  ELSE IF text[from] = "\n" THEN 0
  ELSE AltEnd(text, from + 1)

\* the last index of the match of /!\[.*?\]\((.*?)\)/ that starts at i; 0 if none
MatchEnd(text, i) ==
  IF i + 1 <= Len(text) /\ text[i] = "!" /\ text[i + 1] = "["
  THEN LET j == AltEnd(text, i + 2)
       IN  IF j = 0 THEN 0 ELSE CloseParen(text, j + 2)
  ELSE 0

\* text.match(/!\[.*?\]\((.*?)\)/g) || [] : the matched substrings, left to right
RECURSIVE ImageMatchesFrom(_, _)
ImageMatchesFrom(text, i) ==
  IF i > Len(text) THEN <<>>
  ELSE LET k == MatchEnd(text, i)
       IN  IF k = 0 THEN ImageMatchesFrom(text, i + 1)
           ELSE <<SubSeq(text, i, k)>> \o ImageMatchesFrom(text, k + 1)

\* text?.match(...) || [] for an optional text
ImageMatches(otext) ==
  IF otext = None THEN <<>> ELSE ImageMatchesFrom(otext[1], 1)

\* capture group 1 of /!\[.*?\]\((.*?)\)/g at each match: the referenced urls
RECURSIVE ImageUrlsFrom(_, _)
ImageUrlsFrom(text, i) ==
  IF i > Len(text) THEN <<>>
  ELSE LET k == MatchEnd(text, i)
       IN  IF k = 0 THEN ImageUrlsFrom(text, i + 1)
           ELSE <<SubSeq(text, AltEnd(text, i + 2) + 2, k - 1)>>
                  \o ImageUrlsFrom(text, k + 1)

\* the least p >= from with m[p] = "(" and a ")" after it on the same line; 0 if none
RECURSIVE OpenParen(_, _)
OpenParen(m, from) ==
  IF from > Len(m) THEN 0
  ELSE IF m[from] = "(" /\ CloseParen(m, from + 1) # 0 THEN from
  ELSE OpenParen(m, from + 1)

\* match.match(/\((.*?)\)/)?.[1] || ""
MatchUrl(m) ==
  LET p == OpenParen(m, 1)
  IN  IF p = 0 THEN <<>> ELSE SubSeq(m, p + 1, CloseParen(m, p + 1) - 1)

\* the url of each match, as the scanner's map callback computes it
ScannedUrls(otext) ==
  LET ms == ImageMatches(otext) IN [i \in 1..Len(ms) |-> MatchUrl(ms[i])]

----------------------------------------------------------------------------
(* Bounds of the model.                                                    *)

\* the remote answers a list or search request with at most MaxNodes records
MaxNodes == 2

\* the remote rejects a pull-request body longer than MaxBody characters
MaxBody == 30

\* the remote repository holds at most MaxPulls pull requests
MaxPulls == 2

\* the host sends at most MaxInvocations requests
MaxInvocations == 1

\* the host of the GitHub session sends at most MaxSession requests
MaxSession == 2

----------------------------------------------------------------------------
(* The strings of the model.                                               *)

Empty == <<>>

IssueA == <<"A">>

TitleT == <<"t">>

TeamT == <<"T">>

UserU == <<"u">>

StateS == <<"s">>

OwnerO == <<"o">>

RepoR == <<"r">>

BranchB == <<"b">>

BaseM == <<"m">>

Dev == <<"d", "e", "v">>

UrlL == <<"L">>

Query == <<"q">>

\* "Fixes "
Fixes == <<"F", "i", "x", "e", "s", " ">>

Blank == <<"\n", "\n">>

\* a text with no image reference
TextPlain == <<"x">>

\* "![a](u)![b](v)"
TextTwo == <<"!", "[", "a", "]", "(", "u", ")", "!", "[", "b", "]", "(", "v", ")">>

\* "![a(b)](u)": the alt text holds a parenthesis
TextParen == <<"!", "[", "a", "(", "b", ")", "]", "(", "u", ")">>

\* "![a](u)"
TextOne == <<"!", "[", "a", "]", "(", "u", ")">>

----------------------------------------------------------------------------
(* Requests: a tool name and its arguments.  args.present is FALSE when    *)
(* request.params.arguments is undefined; a field an operation does not    *)
(* take, or that the caller omits, is None.                                *)

NoFields ==
  [ present |-> TRUE, title |-> None, description |-> None, teamId |-> None,
    assigneeId |-> None, priority |-> None, labels |-> None, status |-> None,
    first |-> None, issueId |-> None, query |-> None, owner |-> None,
    repo |-> None, branch |-> None, fromBranch |-> None, pullNumber |-> None,
    body |-> None, head |-> None, base |-> None ]

NoArgs == [NoFields EXCEPT !.present = FALSE]

Req(name, args) == [name |-> name, args |-> args]

OptStr(s) == {None, Some(Empty), Some(s)}

CreateIssueRequests ==
  { Req("create_issue", NoArgs) } \cup
  { Req("create_issue", [NoFields EXCEPT !.title = t, !.teamId = m, !.priority = p,
                                          !.description = d]) :
      t \in OptStr(TitleT), m \in OptStr(TeamT), p \in {None, Some(2), Some(7)},
      d \in {None, Some(TextOne)} }

ListIssuesRequests ==
  { Req("list_issues", NoArgs) } \cup
  { Req("list_issues", [NoFields EXCEPT !.teamId = m, !.assigneeId = a, !.status = s,
                                         !.first = None]) :
      m \in {None, Some(TeamT)}, a \in {None, Some(UserU)}, s \in {None, Some(StateS)} }
    \cup
  { Req("list_issues", [NoFields EXCEPT !.teamId = Some(Empty)]),
    Req("list_issues", [NoFields EXCEPT !.assigneeId = Some(Empty)]),
    Req("list_issues", [NoFields EXCEPT !.status = Some(Empty), !.teamId = Some(TeamT)]) }
    \cup
  { Req("list_issues", [NoFields EXCEPT !.first = f]) : f \in {Some(0), Some(10)} }

UpdateIssueRequests ==
  { Req("update_issue", NoArgs) } \cup
  { Req("update_issue", [NoFields EXCEPT !.issueId = i, !.title = t]) :
      i \in OptStr(IssueA), t \in {None, Some(TitleT)} }

ListTeamsRequests == { Req("list_teams", NoArgs), Req("list_teams", NoFields) }

SearchIssuesRequests ==
  { Req("search_issues", NoArgs) } \cup
  { Req("search_issues", [NoFields EXCEPT !.query = q, !.first = f]) :
      q \in OptStr(Query), f \in {None, Some(0), Some(10)} }

ListProjectsRequests ==
  { Req("list_projects", NoArgs) } \cup
  { Req("list_projects", [NoFields EXCEPT !.teamId = m, !.first = f]) :
      m \in OptStr(TeamT), f \in {None, Some(0), Some(10)} }

GetIssueRequests ==
  { Req("get_issue", NoArgs) } \cup
  { Req("get_issue", [NoFields EXCEPT !.issueId = i]) : i \in OptStr(IssueA) }

CreateFeaturePrRequests ==
  { Req("create_feature_pr", NoArgs) } \cup
  { Req("create_feature_pr", [NoFields EXCEPT !.issueId = i, !.owner = o, !.repo = r,
                                               !.base = b]) :
      i \in OptStr(IssueA), o \in {None, Some(OwnerO)}, r \in {None, Some(RepoR)},
      b \in {None, Some(BaseM)} }

CreateBranchRequests ==
  { Req("github_create_branch", NoArgs) } \cup
  { Req("github_create_branch", [NoFields EXCEPT !.owner = o, !.repo = Some(RepoR),
                                                  !.branch = b, !.fromBranch = f]) :
      o \in {None, Some(OwnerO)}, b \in {None, Some(BranchB)},
      f \in {None, Some(BaseM)} }

UpdatePrRequests ==
  { Req("github_update_pr", NoArgs) } \cup
  { Req("github_update_pr", [NoFields EXCEPT !.owner = Some(OwnerO), !.repo = Some(RepoR),
                                              !.pullNumber = n, !.body = b]) :
      n \in {None, Some(1)}, b \in {None, Some(Empty), Some(TextOne)} }

CreatePrRequests ==
  { Req("github_create_pr", NoArgs) } \cup
  { Req("github_create_pr", [NoFields EXCEPT !.owner = Some(OwnerO), !.repo = Some(RepoR),
                                              !.title = t, !.head = h, !.body = b,
                                              !.base = Some(BaseM)]) :
      t \in {None, Some(TitleT)}, h \in {None, Some(BranchB)},
      b \in {None, Some(TextOne)} }

GetPrRequests ==
  { Req("github_get_pr", NoArgs) } \cup
  { Req("github_get_pr", [NoFields EXCEPT !.owner = Some(OwnerO), !.repo = Some(RepoR),
                                           !.pullNumber = n]) :
      n \in {None, Some(1), Some(2)} }

LinkPrRequests ==
  { Req("github_link_pr_to_linear", NoArgs) } \cup
  { Req("github_link_pr_to_linear",
        [NoFields EXCEPT !.owner = Some(OwnerO), !.repo = Some(RepoR),
                         !.pullNumber = n, !.issueId = i]) :
      n \in {Some(1), Some(2)}, i \in {None, Some(IssueA)} }

UnknownRequests == { Req("delete_issue", NoFields), Req("get_project", NoArgs) }

Requests ==
  CreateIssueRequests \cup ListIssuesRequests \cup UpdateIssueRequests
    \cup ListTeamsRequests \cup SearchIssuesRequests \cup ListProjectsRequests
    \cup GetIssueRequests \cup CreateFeaturePrRequests \cup CreateBranchRequests
    \cup UpdatePrRequests \cup CreatePrRequests \cup GetPrRequests
    \cup LinkPrRequests \cup UnknownRequests

----------------------------------------------------------------------------
(* The state.                                                              *)

VARIABLES
  pc,        \* where the handler of the current invocation is suspended
  req,       \* the request being served
  calls,     \* the remote calls this invocation has issued, with their responses
  loc,       \* the handler's local variables
  envelope,  \* the result returned to the host, None until the handler returns
  outcome,   \* "none", "returned" (an envelope), "threw" (an exception escaped)
  ghPulls,   \* the remote repository: the body of each pull request, by number
  ghRefs,    \* the remote repository: the branches created
  linkHist,  \* the last completed links: pull number, issue id, resulting body
  served,    \* the number of requests received
  proc,      \* the process: its environment, how far startup has come, its exit
  past,      \* the invocations of the session answered so far: tool, outcome
  parked     \* the invocation suspended at an await while another one runs, if any

vars == <<pc, req, calls, loc, envelope, outcome, ghPulls, ghRefs, linkHist, served, proc, past, parked>>

inv == <<pc, calls, loc, envelope, outcome>>

\* what a run of the handler does not change, unless it says so
remote == <<ghPulls, ghRefs, linkHist, served, proc, past, parked>>

ToolNames ==
  { "github_create_branch", "github_update_pr", "github_create_pr", "github_get_pr",
    "github_link_pr_to_linear", "get_issue", "create_issue", "list_issues",
    "update_issue", "list_teams", "list_projects", "search_issues",
    "create_feature_pr" }

\* inputSchema.required of each tool that declares required properties
Required ==
  [ github_create_branch |-> {"owner", "repo", "branch"},
    github_update_pr |-> {"owner", "repo", "pullNumber"},
    github_create_pr |-> {"owner", "repo", "title", "head"},
    github_get_pr |-> {"owner", "repo", "pullNumber"},
    github_link_pr_to_linear |-> {"owner", "repo", "pullNumber", "issueId"},
    get_issue |-> {"issueId"},
    create_issue |-> {"title", "teamId"},
    update_issue |-> {"issueId"},
    search_issues |-> {"query"},
    create_feature_pr |-> {"issueId", "owner", "repo"} ]

\* priority: { type: "number", minimum: 0, maximum: 4 }
PriorityMinimum == 0

PriorityMaximum == 4

\* args?.f
Arg(f) == IF req.args.present THEN req.args[f] ELSE None

LocInit ==
  [ threw |-> "none", issue |-> None, nodes |-> <<>>, fetching |-> {},
    phase |-> "none", imgUrls |-> <<>>, imgs |-> <<>>, analyzed |-> <<>>,
    embedded |-> <<>>, pr |-> None, branch |-> None, link |-> None, sha |-> None,
    read |-> None, results |-> <<>> ]

Call(api, arg) == [api |-> api, arg |-> arg, res |-> "pending"]

\* the response res to the k-th call
Respond(c, k, res) == [c EXCEPT ![k].res = res]

RemoteError == "remote rejected the request"

----------------------------------------------------------------------------
(* How a run of the handler ends: suspended at an await, or with an        *)
(* envelope.                                                               *)

Await(c, l, label) ==
  /\ pc' = label
  /\ calls' = c
  /\ loc' = l
  /\ UNCHANGED <<envelope, outcome>>

\* return { content: [{ type: "text", text }] }
Return(c, l, text) ==
  /\ pc' = "done"
  /\ calls' = c
  /\ loc' = l
  /\ envelope' = Some([isError |-> FALSE, text |-> text])
  /\ outcome' = "returned"

\* a handler without the catch block: the exception leaves the handler and no
\* envelope is built (not what the source does)
Escapes(c, l, msg) ==
  /\ pc' = "done"
  /\ calls' = c
  /\ loc' = l
  /\ envelope' = None
  /\ outcome' = "threw"

\* catch (error) { return { content: [...`Linear API error: ${error.message}`], isError: true } }
CatchBlock(c, l, msg) ==
  /\ pc' = "done"
  /\ calls' = c
  /\ loc' = l
  /\ envelope' = Some([isError |-> TRUE, text |-> <<"Linear API error: ", msg>>])
  /\ outcome' = "returned"

\* a throw inside the try block: kind is why the handler could not complete
Throw(c, l, kind, msg) == CatchBlock(c, [l EXCEPT !.threw = kind], msg)

----------------------------------------------------------------------------
(* The host sends a request; the previous invocation has returned.         *)

Receive(r) ==
  /\ pc = "idle"
  /\ proc.stage = "serving"
  /\ served < MaxInvocations
  /\ served' = served + 1
  /\ pc' = "dispatch"
  /\ req' = r
  /\ calls' = <<>>
  /\ loc' = LocInit
  /\ envelope' = None
  /\ outcome' = "none"
  /\ UNCHANGED <<ghPulls, ghRefs, linkHist, proc, past, parked>>

----------------------------------------------------------------------------
(* default: throw new McpError(MethodNotFound, `Unknown tool: ${name}`)    *)

\* a switch without the list_projects case (not what the source does)
HandlerCasesWithoutListProjects ==
  { "create_issue", "list_issues", "update_issue", "list_teams", "search_issues",
    "github_create_branch", "github_update_pr", "github_create_pr", "github_get_pr",
    "github_link_pr_to_linear", "create_feature_pr", "get_issue" }

\* the case labels of switch (request.params.name)
HandlerCases ==
  { "create_issue", "list_issues", "update_issue", "list_teams", "search_issues",
    "github_create_branch", "github_update_pr", "github_create_pr", "github_get_pr",
    "github_link_pr_to_linear", "create_feature_pr", "get_issue", "list_projects" }

UnknownTool ==
  /\ pc = "dispatch"
  /\ req.name \notin HandlerCases
  /\ Throw(calls, loc, "unknown", "Unknown tool")
  /\ UNCHANGED <<req, remote>>

----------------------------------------------------------------------------
(* case "create_issue"                                                     *)

CreateIssueInput ==
  [ title |-> Arg("title")[1], description |-> Arg("description"),
    teamId |-> Arg("teamId")[1], assigneeId |-> Arg("assigneeId"),
    priority |-> Arg("priority"), labelIds |-> Arg("labels") ]

\* a test that takes only undefined for missing, so that "" passes (not what the
\* source does)
CreateIssueInvalidUndefined == Arg("title") = None \/ Arg("teamId") = None

\* !args?.title || !args?.teamId
CreateIssueInvalid == ~Truthy(Arg("title")) \/ ~Truthy(Arg("teamId"))

CreateIssueStart ==
  /\ pc = "dispatch"
  /\ req.name = "create_issue"
  /\ IF CreateIssueInvalid
     THEN Throw(calls, loc, "validation", "Title and teamId are required")
     ELSE Await(Append(calls, Call("linear.createIssue", CreateIssueInput)), loc,
                "create_issue:createIssue")
  /\ UNCHANGED <<req, remote>>

\* create_issue with one retry: a rejected createIssue is issued a second time
\* (not what the source does)
CreateIssueRetried ==
  /\ pc = "create_issue:createIssue"
  /\ \E res \in {"ok", "fail"} :
       LET c == Respond(calls, Len(calls), res)
       IN  IF res = "ok"
           THEN Return(c, loc, <<"issue", c[Len(c)].arg>>)
           ELSE IF Len(c) = 1
           THEN Await(Append(c, Call("linear.createIssue", CreateIssueInput)), loc,
                      "create_issue:createIssue")
           ELSE Throw(c, loc, "remote", RemoteError)
  /\ UNCHANGED <<req, remote>>

CreateIssueDone ==
  /\ pc = "create_issue:createIssue"
  /\ \E res \in {"ok", "fail"} :
       LET c == Respond(calls, Len(calls), res)
       IN  IF res = "ok"
           THEN Return(c, loc, <<"issue", c[Len(c)].arg>>)
           ELSE Throw(c, loc, "remote", RemoteError)
  /\ UNCHANGED <<req, remote>>

----------------------------------------------------------------------------
(* The list operations: list_issues, search_issues, list_projects.         *)

FilterEntry(path, value) == [path |-> path, value |-> value]

\* a filter that compares the state by id, as it does the team and the assignee
\* (not what the source does)
ListIssuesFilterIds ==
  LET keys == (IF Truthy(Arg("teamId")) THEN {"team"} ELSE {})
                \cup (IF Truthy(Arg("assigneeId")) THEN {"assignee"} ELSE {})
                \cup (IF Truthy(Arg("status")) THEN {"state"} ELSE {})
  IN  [ k \in keys |->
          CASE k = "team" -> FilterEntry(<<"id", "eq">>, Arg("teamId")[1])
            [] k = "assignee" -> FilterEntry(<<"id", "eq">>, Arg("assigneeId")[1])
            [] k = "state" -> FilterEntry(<<"id", "eq">>, Arg("status")[1]) ]

\* if (args?.teamId) filter.team = ...; if (args?.assigneeId) ...; if (args?.status) ...
ListIssuesFilter ==
  LET keys == (IF Truthy(Arg("teamId")) THEN {"team"} ELSE {})
                \cup (IF Truthy(Arg("assigneeId")) THEN {"assignee"} ELSE {})
                \cup (IF Truthy(Arg("status")) THEN {"state"} ELSE {})
  IN  [ k \in keys |->
          CASE k = "team" -> FilterEntry(<<"id", "eq">>, Arg("teamId")[1])
            [] k = "assignee" -> FilterEntry(<<"id", "eq">>, Arg("assigneeId")[1])
            [] k = "state" -> FilterEntry(<<"name", "eq">>, Arg("status")[1]) ]

\* if (args?.teamId) filter.team = { id: { eq: args.teamId } }
ListProjectsFilter ==
  LET keys == IF Truthy(Arg("teamId")) THEN {"team"} ELSE {}
  IN  [ k \in keys |-> FilterEntry(<<"id", "eq">>, Arg("teamId")[1]) ]

\* first: args?.first || 50, which takes 0 for omitted (not what the source does)
PageSizeOr == IF Arg("first") # None /\ Arg("first")[1] # 0 THEN Arg("first")[1] ELSE 50

\* first: args?.first ?? 50
PageSize == Coalesce(Arg("first"), 50)

ListIssuesStart ==
  /\ pc = "dispatch"
  /\ req.name = "list_issues"
  /\ Await(Append(calls, Call("linear.issues",
                              [first |-> PageSize, filter |-> ListIssuesFilter])),
           loc, "list:query")
  /\ UNCHANGED <<req, remote>>

SearchIssuesStart ==
  /\ pc = "dispatch"
  /\ req.name = "search_issues"
  /\ IF ~Truthy(Arg("query"))
     THEN Throw(calls, loc, "validation", "Search query is required")
     ELSE Await(Append(calls, Call("linear.searchIssues",
                                   [query |-> Arg("query")[1], first |-> PageSize])),
                loc, "list:query")
  /\ UNCHANGED <<req, remote>>

ListProjectsStart ==
  /\ pc = "dispatch"
  /\ req.name = "list_projects"
  /\ Await(Append(calls, Call("linear.projects",
                              [first |-> PageSize, filter |-> ListProjectsFilter])),
           loc, "list:query")
  /\ UNCHANGED <<req, remote>>

\* a record of the remote's answer: which of its references are set (a project's
\* teams are always looked up)
NodeKinds ==
  IF req.name = "list_projects" THEN {[hasState |-> FALSE, hasAssignee |-> FALSE]}
  ELSE [hasState : BOOLEAN, hasAssignee : BOOLEAN]

\* a callback that awaits the assignee before the state (not what the source does)
NodeTodoAssigneeFirst(kind) ==
  IF req.name = "list_projects" THEN <<"project.teams">>
  ELSE (IF kind.hasAssignee THEN <<"issue.assignee">> ELSE <<>>)
         \o (IF kind.hasState THEN <<"issue.state">> ELSE <<>>)

\* the lookups the map callback awaits for one record, in order; a reference
\* that is not set resolves without a remote call
NodeTodo(kind) ==
  IF req.name = "list_projects" THEN <<"project.teams">>
  ELSE (IF kind.hasState THEN <<"issue.state">> ELSE <<>>)
         \o (IF kind.hasAssignee THEN <<"issue.assignee">> ELSE <<>>)

\* the callback of node n runs to its next await: the call it issues, appended to c
NodeAdvance(n, c) ==
  IF n.todo = <<>>
  THEN [node |-> [n EXCEPT !.call = 0], calls |-> c]
  ELSE [node |-> [n EXCEPT !.todo = Tail(n.todo), !.call = Len(c) + 1],
        calls |-> Append(c, Call(Head(n.todo), n.kind))]

\* Promise.all(nodes.map(async ...)): every callback runs to its first await
RECURSIVE NodesStart(_, _, _)
NodesStart(kinds, done, c) ==
  IF Len(done) = Len(kinds) THEN [nodes |-> done, calls |-> c]
  ELSE LET k == kinds[Len(done) + 1]
           a == NodeAdvance([kind |-> k, todo |-> NodeTodo(k), call |-> 0], c)
       IN  NodesStart(kinds, Append(done, a.node), a.calls)

\* the flattened record of one node
Formatted(n) ==
  [ status |-> IF req.name = "list_projects" THEN "n/a"
               ELSE IF n.kind.hasState THEN "name" ELSE "Unknown",
    assignee |-> IF req.name = "list_projects" THEN "n/a"
                 ELSE IF n.kind.hasAssignee THEN "name" ELSE "Unassigned" ]

NodesJoined(nodes) == \A i \in 1..Len(nodes) : nodes[i].call = 0

\* the await of Promise.all: resolved when every callback has returned
NodesJoin(c, l, nodes) ==
  IF NodesJoined(nodes)
  THEN Return(c, [l EXCEPT !.nodes = nodes],
              <<"list", [i \in 1..Len(nodes) |-> Formatted(nodes[i])]>>)
  ELSE Await(c, [l EXCEPT !.nodes = nodes], "list:nodes")

NodeSeqs == UNION { [1..n -> NodeKinds] : n \in 0..MaxNodes }

ListQueryDone ==
  /\ pc = "list:query"
  /\ \E res \in {"ok", "fail"} :
       LET c == Respond(calls, Len(calls), res)
       IN  IF res = "fail" THEN Throw(c, loc, "remote", RemoteError)
           ELSE \E kinds \in NodeSeqs :
                  LET s == NodesStart(kinds, <<>>, c)
                  IN  NodesJoin(s.calls, loc, s.nodes)
  /\ UNCHANGED <<req, remote>>

NodeFetched(i) ==
  /\ pc = "list:nodes"
  /\ i \in 1..Len(loc.nodes)
  /\ loc.nodes[i].call # 0
  /\ \E res \in {"ok", "fail"} :
       LET c == Respond(calls, loc.nodes[i].call, res)
       IN  IF res = "fail" THEN Throw(c, loc, "remote", RemoteError)
           ELSE LET a == NodeAdvance(loc.nodes[i], c)
                IN  NodesJoin(a.calls, loc, [loc.nodes EXCEPT ![i] = a.node])
  /\ UNCHANGED <<req, remote>>

----------------------------------------------------------------------------
(* case "list_teams"                                                       *)

\* list_teams with a cache kept between invocations: the teams answered before
\* are returned without a remote call (not what the source does)
ListTeamsCached ==
  /\ pc = "dispatch"
  /\ req.name = "list_teams"
  /\ IF \E i \in 1..Len(past) : past[i].name = "list_teams" /\ ~past[i].isError
     THEN Return(calls, loc, <<"teams">>)
     ELSE Await(Append(calls, Call("linear.teams", <<>>)), loc, "list_teams:teams")
  /\ UNCHANGED <<req, remote>>

ListTeamsStart ==
  /\ pc = "dispatch"
  /\ req.name = "list_teams"
  /\ Await(Append(calls, Call("linear.teams", <<>>)), loc, "list_teams:teams")
  /\ UNCHANGED <<req, remote>>

\* list_teams with a timeout: the handler may give up on linearClient.teams()
\* before it has answered (not what the source does)
ListTeamsTimesOut ==
  /\ pc = "list_teams:teams"
  /\ \/ \E res \in {"ok", "fail"} :
          LET c == Respond(calls, Len(calls), res)
          IN  IF res = "ok" THEN Return(c, loc, <<"teams">>)
              ELSE Throw(c, loc, "remote", RemoteError)
     \/ Throw(calls, loc, "remote", "timeout")
  /\ UNCHANGED <<req, remote>>

ListTeamsDone ==
  /\ pc = "list_teams:teams"
  /\ \E res \in {"ok", "fail"} :
       LET c == Respond(calls, Len(calls), res)
       IN  IF res = "ok" THEN Return(c, loc, <<"teams">>)
           ELSE Throw(c, loc, "remote", RemoteError)
  /\ UNCHANGED <<req, remote>>

----------------------------------------------------------------------------
(* The issues linearClient.issue(id) may answer with.                      *)

\* "a.PNG"
UrlPng == <<"a", ".", "P", "N", "G">>

\* "b.png?x"
UrlQuery == <<"b", ".", "p", "n", "g", "?", "x">>

\* "c.jpeg"
UrlJpeg == <<"c", ".", "j", "p", "e", "g">>

\* the references of the issue, in the order of the array given to Promise.all
References ==
  <<"issue.state", "issue.assignee", "issue.creator", "issue.team", "issue.project",
    "issue.parent", "issue.cycle">>

Collections == <<"issue.labels", "issue.comments", "issue.attachments">>

\* a second title
TitleV == <<"v">>

\* the issues of the remote tracker: related is the set of references that are
\* set, teamId the id of the team when the team reference is set
RemoteIssues ==
  { [ id |-> IssueA, title |-> TitleT, description |-> Some(TextOne), url |-> UrlL,
      branchName |-> Some(BranchB),
      related |-> { References[p] : p \in 1..Len(References) }, teamId |-> TeamT,
      attachments |-> <<Some(UrlPng), Some(UrlQuery), None, Some(UrlJpeg)>> ],
    [ id |-> IssueA, title |-> TitleT, description |-> Some(TextTwo), url |-> UrlL,
      branchName |-> None, related |-> {}, teamId |-> TeamT, attachments |-> <<>> ],
    [ id |-> IssueA, title |-> TitleT, description |-> Some(TextParen), url |-> UrlL,
      branchName |-> Some(Empty), related |-> {}, teamId |-> TeamT,
      attachments |-> <<>> ],
    [ id |-> IssueA, title |-> TitleT, description |-> None, url |-> UrlL,
      branchName |-> Some(BranchB), related |-> {}, teamId |-> TeamT,
      attachments |-> <<>> ],
    [ id |-> IssueA, title |-> TitleV, description |-> None, url |-> UrlL,
      branchName |-> None, related |-> {"issue.team"}, teamId |-> TeamT,
      attachments |-> <<>> ] }

\* what linearClient.issue(id) resolves to: an issue, or nothing
IssueAnswers == {None} \cup { Some(i) : i \in RemoteIssues }

----------------------------------------------------------------------------
(* case "update_issue"                                                     *)

UpdateIssueStart ==
  /\ pc = "dispatch"
  /\ req.name = "update_issue"
  /\ IF ~Truthy(Arg("issueId"))
     THEN Throw(calls, loc, "validation", "Issue ID is required")
     ELSE Await(Append(calls, Call("linear.issue", Arg("issueId")[1])), loc,
                "update_issue:issue")
  /\ UNCHANGED <<req, remote>>

UpdateIssueInput ==
  [ title |-> Arg("title"), description |-> Arg("description"),
    stateId |-> Arg("status"), assigneeId |-> Arg("assigneeId"),
    priority |-> Arg("priority") ]

\* update_issue without the test of the looked-up issue: the update is issued
\* whatever the lookup resolves to (not what the source does)
UpdateIssueUnchecked ==
  /\ pc = "update_issue:issue"
  /\ \E res \in {"ok", "fail"} :
       LET c == Respond(calls, Len(calls), res)
       IN  IF res = "fail" THEN Throw(c, loc, "remote", RemoteError)
           ELSE \E i \in IssueAnswers :
                  Await(Append(c, Call("issue.update", UpdateIssueInput)),
                        [loc EXCEPT !.issue = i], "update_issue:update")
  /\ UNCHANGED <<req, remote>>

UpdateIssueFound ==
  /\ pc = "update_issue:issue"
  /\ \E res \in {"ok", "fail"} :
       LET c == Respond(calls, Len(calls), res)
       IN  IF res = "fail" THEN Throw(c, loc, "remote", RemoteError)
           ELSE \E i \in IssueAnswers :
                  IF i = None THEN Throw(c, loc, "notfound", "Issue not found")
                  ELSE Await(Append(c, Call("issue.update", UpdateIssueInput)),
                             [loc EXCEPT !.issue = i], "update_issue:update")
  /\ UNCHANGED <<req, remote>>

UpdateIssueDone ==
  /\ pc = "update_issue:update"
  /\ \E res \in {"ok", "fail"} :
       LET c == Respond(calls, Len(calls), res)
       IN  IF res = "ok" THEN Return(c, loc, <<"updated", c[Len(c)].arg>>)
           ELSE Throw(c, loc, "remote", RemoteError)
  /\ UNCHANGED <<req, remote>>

----------------------------------------------------------------------------
(* The remote repository, as the GitHub client's calls see it.             *)

\* `${x}` for an optional string x
UndefinedText == <<"u", "n", "d", "e", "f", "i", "n", "e", "d">>

ToStr(o) == IF o = None THEN UndefinedText ELSE o[1]

Shas == {"c1", "c2"}

PullExists(n) == n # None /\ n[1] \in 1..Len(ghPulls)

BodyTooLong(b) == b # None /\ Len(b[1]) > MaxBody

\* the responses the remote can give to call k (a rejection is always possible)
Responses(k) ==
  LET a == calls[k].arg
      mustFail ==
        CASE calls[k].api = "pulls.get" -> ~PullExists(a.pull_number)
          [] calls[k].api = "pulls.update" ->
               ~PullExists(a.pull_number) \/ BodyTooLong(a.body)
          [] calls[k].api = "pulls.create" ->
               \/ Len(ghPulls) >= MaxPulls
               \/ ~Truthy(a.title) \/ ~Truthy(a.head) \/ ~Truthy(a.base)
               \/ BodyTooLong(a.body)
          [] calls[k].api = "git.getRef" -> ~Truthy(a.owner) \/ ~Truthy(a.repo)
          [] calls[k].api = "git.createRef" ->
               a.branch \in ghRefs
          [] OTHER -> FALSE
  IN  IF mustFail THEN {"fail"} ELSE {"ok", "fail"}

----------------------------------------------------------------------------
(* analyzeImage and extractAndAnalyzeImages.                               *)

\* imageMatches.map(async (match) => ...): every callback calls analyzeImage,
\* which issues axios.get(url) and suspends
ImagesBegin(c, l, urls, phase) ==
  [ calls |-> c \o [i \in 1..Len(urls) |-> Call("axios.get", urls[i])],
    loc |-> [l EXCEPT !.phase = phase,
                      !.imgs = [i \in 1..Len(urls) |->
                                  [url |-> urls[i], call |-> Len(c) + i,
                                   analysis |-> "pending"]]] ]

\* the { url, analysis } pairs, in the order of the callbacks
Pairs(imgs) == [i \in 1..Len(imgs) |-> [url |-> imgs[i].url, analysis |-> imgs[i].analysis]]

ImagesJoined(imgs) == \A i \in 1..Len(imgs) : imgs[i].analysis # "pending"

\* /\.(jpg|jpeg|png|gif|webp)$/i
UpperCase == <<"A", "B", "C", "D", "E", "F", "G", "H", "I", "J", "K", "L", "M",
               "N", "O", "P", "Q", "R", "S", "T", "U", "V", "W", "X", "Y", "Z">>

LowerCase == <<"a", "b", "c", "d", "e", "f", "g", "h", "i", "j", "k", "l", "m",
               "n", "o", "p", "q", "r", "s", "t", "u", "v", "w", "x", "y", "z">>

Lower(ch) ==
  IF \E i \in 1..Len(UpperCase) : UpperCase[i] = ch
  THEN LowerCase[CHOOSE i \in 1..Len(UpperCase) : UpperCase[i] = ch]
  ELSE ch

ImageExtensions ==
  { <<".", "j", "p", "g">>, <<".", "j", "p", "e", "g">>, <<".", "p", "n", "g">>,
    <<".", "g", "i", "f">>, <<".", "w", "e", "b", "p">> }

\* the filter without the i flag (not what the source does)
IsImageUrlCaseSensitive(ourl) ==
  /\ ourl # None
  /\ \E e \in ImageExtensions :
       /\ Len(ourl[1]) >= Len(e)
       /\ [i \in 1..Len(e) |-> ourl[1][Len(ourl[1]) - Len(e) + i]] = e

\* attachment?.url?.match(/\.(jpg|jpeg|png|gif|webp)$/i)
IsImageUrl(ourl) ==
  /\ ourl # None
  /\ \E e \in ImageExtensions :
       /\ Len(ourl[1]) >= Len(e)
       /\ [i \in 1..Len(e) |-> Lower(ourl[1][Len(ourl[1]) - Len(e) + i])] = e

\* the urls of the attachments that pass the filter, in order
RECURSIVE ImageAttachments(_)
ImageAttachments(atts) ==
  IF atts = <<>> THEN <<>>
  ELSE (IF IsImageUrl(Head(atts)) THEN <<Head(atts)[1]>> ELSE <<>>)
         \o ImageAttachments(Tail(atts))

----------------------------------------------------------------------------
(* GitHubClient (the class index.ts imports).                              *)

\* createBranch: const { owner, repo, branch, fromBranch = "dev" } = params; getRef
BranchBegin(c, l, params) ==
  Await(Append(c, Call("git.getRef",
                       [owner |-> params.owner, repo |-> params.repo,
                        ref |-> <<"heads/", Coalesce(params.fromBranch, Dev)>>])),
        [l EXCEPT !.branch = params], "branch:getRef")

\* linkPullRequestToLinear: const { owner, repo, pullNumber, issueId } = params; pulls.get
LinkBegin(c, l, params) ==
  Await(Append(c, Call("pulls.get",
                       [owner |-> params.owner, repo |-> params.repo,
                        pull_number |-> params.pullNumber])),
        [l EXCEPT !.link = params], "link:get")

\* `Fixes ${issueId}\n\n${pr.body || ""}`
LinkedBody(issueId, body) == Fixes \o ToStr(issueId) \o Blank \o OrElse(body, Empty)

\* octokit.pulls.create(params)
PullBegin(c, l, params) == Await(Append(c, Call("pulls.create", params)), l, "pr:create")

----------------------------------------------------------------------------
(* What the handler does once Promise.all over the image callbacks          *)
(* resolves.                                                               *)

\* `[${args.issueId}] ${issue.title}`
FeatureTitle(issue) == <<"[">> \o Arg("issueId")[1] \o <<"]", " ">> \o issue.title

\* `Fixes ${issue.url}\n\n${issue.description || ""}`
FeatureBody(issue) == Fixes \o issue.url \o Blank \o OrElse(issue.description, Empty)

\* a record whose title is taken from the identifier (not what the source does)
IssueDetailsById(l) ==
  [ title |-> l.issue[1].id,
    status |-> IF "issue.state" \in l.issue[1].related THEN "name" ELSE "Unknown",
    team |-> IF "issue.team" \in l.issue[1].related
             THEN Some([id |-> l.issue[1].teamId]) ELSE None,
    fetched |-> l.results,
    embeddedImages |-> l.embedded,
    attachments |-> Pairs(l.imgs) ]

IssueDetails(l) ==
  [ title |-> l.issue[1].title,
    status |-> IF "issue.state" \in l.issue[1].related THEN "name" ELSE "Unknown",
    team |-> IF "issue.team" \in l.issue[1].related
             THEN Some([id |-> l.issue[1].teamId]) ELSE None,
    fetched |-> l.results,
    embeddedImages |-> l.embedded,
    attachments |-> Pairs(l.imgs) ]

\* get_issue: the attachments are analysed after the embedded images
AfterEmbedded(c, l) ==
  LET urls == ImageAttachments(l.issue[1].attachments)
      b == ImagesBegin(c, [l EXCEPT !.embedded = Pairs(l.imgs)], urls, "attachments")
  IN  IF urls = <<>> THEN Return(b.calls, b.loc, <<"issue", IssueDetails(b.loc)>>)
      ELSE Await(b.calls, b.loc, "images")

AfterImages(c, l) ==
  CASE req.name = "github_update_pr" ->
         Await(Append(c, Call("pulls.update",
                              [owner |-> Arg("owner"), repo |-> Arg("repo"),
                               pull_number |-> Arg("pullNumber"),
                               title |-> Arg("title"), body |-> Arg("body")])),
               l, "update_pr:update")
    [] req.name = "github_create_pr" ->
         PullBegin(c, l, [owner |-> Arg("owner"), repo |-> Arg("repo"),
                          title |-> Arg("title"), body |-> Arg("body"),
                          head |-> Arg("head"), base |-> Arg("base")])
    [] req.name = "github_get_pr" ->
         Return(c, l, <<"pr", l.pr, Pairs(l.imgs)>>)
    [] req.name = "create_feature_pr" ->
         PullBegin(c, l, [owner |-> Arg("owner"), repo |-> Arg("repo"),
                          title |-> Some(FeatureTitle(l.issue[1])),
                          body |-> Some(FeatureBody(l.issue[1])),
                          head |-> l.issue[1].branchName,
                          base |-> Some(OrElse(Arg("base"), Dev))])
    [] req.name = "get_issue" /\ l.phase = "embedded" -> AfterEmbedded(c, l)
    [] req.name = "get_issue" /\ l.phase = "attachments" ->
         Return(c, l, <<"issue", IssueDetails(l)>>)

\* await Promise.all(...) over the image callbacks of the urls
ImagesStart(c, l, urls, phase) ==
  LET b == ImagesBegin(c, l, urls, phase)
  IN  IF urls = <<>> THEN AfterImages(b.calls, b.loc)
      ELSE Await(b.calls, b.loc, "images")

\* one axios.get responds: analyzeImage returns the data, or catches the error
ImageFetched(i) ==
  /\ pc = "images"
  /\ i \in 1..Len(loc.imgs)
  /\ loc.imgs[i].analysis = "pending"
  /\ \E res \in {"ok", "fail"} :
       LET c == Respond(calls, loc.imgs[i].call, res)
           l == [loc EXCEPT !.imgs[i].analysis = IF res = "ok" THEN "data" ELSE "error"]
       IN  IF ImagesJoined(l.imgs) THEN AfterImages(c, l) ELSE Await(c, l, "images")
  /\ UNCHANGED <<req, remote>>

----------------------------------------------------------------------------
(* The GitHub tools.  With request.params.arguments undefined, reading a   *)
(* field of args (or destructuring it) throws a TypeError, which the catch *)
(* block turns into an envelope.                                           *)

TypeErrorText == "Cannot read properties of undefined"

ToolBranchParams ==
  [ owner |-> Arg("owner"), repo |-> Arg("repo"), branch |-> Arg("branch"),
    fromBranch |-> Arg("fromBranch") ]

\* case "github_create_branch": githubClient.createBranch(args)
CreateBranchStart ==
  /\ pc = "dispatch"
  /\ req.name = "github_create_branch"
  /\ IF ~req.args.present THEN Throw(calls, loc, "type", TypeErrorText)
     ELSE BranchBegin(calls, loc, ToolBranchParams)
  /\ UNCHANGED <<req, remote>>

\* createBranch that does not wait for the lookup to succeed: createRef is issued
\* whatever getRef answers (not what the source does)
BranchGetRefEager ==
  /\ pc = "branch:getRef"
  /\ \E res \in Responses(Len(calls)) :
       LET c == Respond(calls, Len(calls), res)
           b == loc.branch
       IN  \E sha \in Shas :
             Await(Append(c, Call("git.createRef",
                                  [owner |-> b.owner, repo |-> b.repo,
                                   branch |-> ToStr(b.branch), sha |-> sha,
                                   ref |-> <<"refs/heads/", ToStr(b.branch)>>])),
                   [loc EXCEPT !.sha = sha], "branch:createRef")
  /\ UNCHANGED <<req, remote>>

\* createBranch, after getRef: createRef at ref.object.sha
BranchGetRef ==
  /\ pc = "branch:getRef"
  /\ \E res \in Responses(Len(calls)) :
       LET c == Respond(calls, Len(calls), res)
           b == loc.branch
       IN  IF res = "fail" THEN Throw(c, loc, "remote", RemoteError)
           ELSE \E sha \in Shas :
                  Await(Append(c, Call("git.createRef",
                                       [owner |-> b.owner, repo |-> b.repo,
                                        branch |-> ToStr(b.branch), sha |-> sha,
                                        ref |-> <<"refs/heads/", ToStr(b.branch)>>])),
                        [loc EXCEPT !.sha = sha], "branch:createRef")
  /\ UNCHANGED <<req, remote>>

\* createBranch whose failure is ignored by create_feature_pr: the handler goes
\* on to the pull request although createRef was rejected (not what the source does)
BranchCreateRefIgnored ==
  /\ pc = "branch:createRef"
  /\ \E res \in Responses(Len(calls)) :
       LET c == Respond(calls, Len(calls), res)
           a == calls[Len(calls)].arg
       IN  /\ ghRefs' = IF res = "ok" THEN ghRefs \cup {a.branch}
                        ELSE ghRefs
           /\ IF req.name = "github_create_branch"
              THEN (IF res = "fail" THEN Throw(c, loc, "remote", RemoteError)
                    ELSE Return(c, loc, <<"success">>))
              ELSE ImagesStart(c, loc,
                               ScannedUrls(Some(OrElse(loc.issue[1].description, Empty))),
                               "feature")
  /\ UNCHANGED <<req, ghPulls, linkHist, served, proc, past, parked>>

\* createBranch returns; create_feature_pr goes on to the images of the description
BranchCreateRef ==
  /\ pc = "branch:createRef"
  /\ \E res \in Responses(Len(calls)) :
       LET c == Respond(calls, Len(calls), res)
           a == calls[Len(calls)].arg
       IN  /\ ghRefs' = IF res = "ok" THEN ghRefs \cup {a.branch}
                        ELSE ghRefs
           /\ IF res = "fail" THEN Throw(c, loc, "remote", RemoteError)
              ELSE IF req.name = "github_create_branch"
              THEN Return(c, loc, <<"success">>)
              ELSE ImagesStart(c, loc,
                               ScannedUrls(Some(OrElse(loc.issue[1].description, Empty))),
                               "feature")
  /\ UNCHANGED <<req, ghPulls, linkHist, served, proc, past, parked>>

\* case "github_update_pr": args.body ? await extractAndAnalyzeImages(args.body) : []
UpdatePrStart ==
  /\ pc = "dispatch"
  /\ req.name = "github_update_pr"
  /\ IF ~req.args.present THEN Throw(calls, loc, "type", TypeErrorText)
     ELSE ImagesStart(calls, loc,
                      IF Truthy(Arg("body")) THEN ScannedUrls(Arg("body")) ELSE <<>>,
                      "update_pr")
  /\ UNCHANGED <<req, remote>>

UpdatePrDone ==
  /\ pc = "update_pr:update"
  /\ \E res \in Responses(Len(calls)) :
       LET c == Respond(calls, Len(calls), res)
           a == calls[Len(calls)].arg
       IN  /\ ghPulls' = IF res = "ok" /\ a.body # None
                         THEN [ghPulls EXCEPT ![a.pull_number[1]] = a.body]
                         ELSE ghPulls
           /\ linkHist' = IF res = "ok" /\ a.body # None THEN <<>> ELSE linkHist
           /\ IF res = "fail" THEN Throw(c, loc, "remote", RemoteError)
              ELSE Return(c, loc, <<"pr", a.pull_number, Pairs(loc.imgs)>>)
  /\ UNCHANGED <<req, ghRefs, served, proc, past, parked>>

\* case "github_create_pr": await extractAndAnalyzeImages(args.body)
CreatePrStart ==
  /\ pc = "dispatch"
  /\ req.name = "github_create_pr"
  /\ IF ~req.args.present THEN Throw(calls, loc, "type", TypeErrorText)
     ELSE ImagesStart(calls, loc, ScannedUrls(Arg("body")), "create_pr")
  /\ UNCHANGED <<req, remote>>

\* createPullRequest followed by a compensation: when pulls.create is rejected
\* the branch created before is deleted (not what the source does)
PullCreatedRollback ==
  /\ pc = "pr:create"
  /\ \E res \in Responses(Len(calls)) :
       LET c == Respond(calls, Len(calls), res)
           a == calls[Len(calls)].arg
           n == Len(ghPulls) + 1
           l == [loc EXCEPT !.pr = Some(n)]
       IN  /\ ghPulls' = IF res = "ok" THEN Append(ghPulls, a.body) ELSE ghPulls
           /\ ghRefs' = IF res = "fail" /\ req.name = "create_feature_pr"
                        THEN ghRefs \ {ToStr(loc.branch.branch)}
                        ELSE ghRefs
           /\ IF res = "fail"
              THEN Throw(IF req.name = "create_feature_pr"
                         THEN Append(c, [api |-> "git.deleteRef",
                                         arg |-> ToStr(loc.branch.branch), res |-> "ok"])
                         ELSE c,
                         loc, "remote", RemoteError)
              ELSE IF req.name = "github_create_pr"
              THEN Return(c, l, <<"pr", Some(n), Pairs(loc.imgs)>>)
              ELSE LinkBegin(c, l, [owner |-> Arg("owner"), repo |-> Arg("repo"),
                                    pullNumber |-> Some(n), issueId |-> Arg("issueId")])
  /\ UNCHANGED <<req, linkHist, served, proc, past, parked>>

\* pulls.create responds; create_feature_pr goes on to link the new pull request
PullCreated ==
  /\ pc = "pr:create"
  /\ \E res \in Responses(Len(calls)) :
       LET c == Respond(calls, Len(calls), res)
           a == calls[Len(calls)].arg
           n == Len(ghPulls) + 1
           l == [loc EXCEPT !.pr = Some(n)]
       IN  /\ ghPulls' = IF res = "ok" THEN Append(ghPulls, a.body) ELSE ghPulls
           /\ IF res = "fail" THEN Throw(c, loc, "remote", RemoteError)
              ELSE IF req.name = "github_create_pr"
              THEN Return(c, l, <<"pr", Some(n), Pairs(loc.imgs)>>)
              ELSE LinkBegin(c, l, [owner |-> Arg("owner"), repo |-> Arg("repo"),
                                    pullNumber |-> Some(n), issueId |-> Arg("issueId")])
  /\ UNCHANGED <<req, ghRefs, linkHist, served, proc, past, parked>>

\* case "github_get_pr": getPullRequest, then the images of result.body
GetPrStart ==
  /\ pc = "dispatch"
  /\ req.name = "github_get_pr"
  /\ IF ~req.args.present THEN Throw(calls, loc, "type", TypeErrorText)
     ELSE Await(Append(calls, Call("pulls.get",
                                   [owner |-> Arg("owner"), repo |-> Arg("repo"),
                                    pull_number |-> Arg("pullNumber")])),
                loc, "get_pr:get")
  /\ UNCHANGED <<req, remote>>

\* body: pr.body || ""
GetPrGot ==
  /\ pc = "get_pr:get"
  /\ \E res \in Responses(Len(calls)) :
       LET c == Respond(calls, Len(calls), res)
           n == calls[Len(calls)].arg.pull_number
       IN  IF res = "fail" THEN Throw(c, loc, "remote", RemoteError)
           ELSE ImagesStart(c, [loc EXCEPT !.pr = n],
                            ScannedUrls(Some(OrElse(ghPulls[n[1]], Empty))), "get_pr")
  /\ UNCHANGED <<req, remote>>

\* case "github_link_pr_to_linear": githubClient.linkPullRequestToLinear(args)
LinkPrStart ==
  /\ pc = "dispatch"
  /\ req.name = "github_link_pr_to_linear"
  /\ IF ~req.args.present THEN Throw(calls, loc, "type", TypeErrorText)
     ELSE LinkBegin(calls, loc, [owner |-> Arg("owner"), repo |-> Arg("repo"),
                                 pullNumber |-> Arg("pullNumber"),
                                 issueId |-> Arg("issueId")])
  /\ UNCHANGED <<req, remote>>

\* linkPullRequestToLinear, after pulls.get: pulls.update with the new body
LinkGot ==
  /\ pc = "link:get"
  /\ \E res \in Responses(Len(calls)) :
       LET c == Respond(calls, Len(calls), res)
           p == loc.link
       IN  IF res = "fail" THEN Throw(c, loc, "remote", RemoteError)
           ELSE Await(Append(c, Call("pulls.update",
                                     [owner |-> p.owner, repo |-> p.repo,
                                      pull_number |-> p.pullNumber, title |-> None,
                                      body |-> Some(LinkedBody(p.issueId,
                                                               ghPulls[p.pullNumber[1]]))])),
                      [loc EXCEPT !.read = ghPulls[p.pullNumber[1]]], "link:update")
  /\ UNCHANGED <<req, remote>>

LastTwo(h) == IF Len(h) > 2 THEN SubSeq(h, Len(h) - 1, Len(h)) ELSE h

\* linkPullRequestToLinear returns { success: true }
LinkUpdated ==
  /\ pc = "link:update"
  /\ \E res \in Responses(Len(calls)) :
       LET c == Respond(calls, Len(calls), res)
           a == calls[Len(calls)].arg
       IN  /\ ghPulls' = IF res = "ok" THEN [ghPulls EXCEPT ![a.pull_number[1]] = a.body]
                         ELSE ghPulls
           /\ linkHist' = IF res = "ok"
                          THEN LastTwo(Append(linkHist,
                                              [pull |-> a.pull_number[1],
                                               issueId |-> loc.link.issueId,
                                               body |-> a.body[1]]))
                          ELSE linkHist
           /\ IF res = "fail" THEN Throw(c, loc, "remote", RemoteError)
              ELSE IF req.name = "github_link_pr_to_linear"
              THEN Return(c, loc, <<"success">>)
              ELSE Return(c, loc, <<"pr", loc.pr, Pairs(loc.imgs)>>)
  /\ UNCHANGED <<req, ghRefs, served, proc, past, parked>>

----------------------------------------------------------------------------
(* case "create_feature_pr"                                                *)

FeaturePrStart ==
  /\ pc = "dispatch"
  /\ req.name = "create_feature_pr"
  /\ IF ~Truthy(Arg("issueId")) \/ ~Truthy(Arg("owner")) \/ ~Truthy(Arg("repo"))
     THEN Throw(calls, loc, "validation", "issueId, owner, and repo are required")
     ELSE Await(Append(calls, Call("linear.issue", Arg("issueId")[1])), loc,
                "feature:issue")
  /\ UNCHANGED <<req, remote>>

\* a test that takes only undefined for a missing branch name (not what the
\* source does)
HasBranchNameField(issue) == issue.branchName # None

\* issue.branchName is truthy: the negation of !issue.branchName
HasBranchName(issue) == Truthy(issue.branchName)

\* the issue is found and has a branch name: createBranch from args.base || "dev"
FeaturePrIssue ==
  /\ pc = "feature:issue"
  /\ \E res \in {"ok", "fail"} :
       LET c == Respond(calls, Len(calls), res)
       IN  IF res = "fail" THEN Throw(c, loc, "remote", RemoteError)
           ELSE \E i \in IssueAnswers :
                  IF i = None THEN Throw(c, loc, "notfound", "Issue not found")
                  ELSE IF ~HasBranchName(i[1])
                  THEN Throw(c, [loc EXCEPT !.issue = i], "notfound",
                             "Branch name not found for issue")
                  ELSE BranchBegin(c, [loc EXCEPT !.issue = i],
                                   [owner |-> Arg("owner"), repo |-> Arg("repo"),
                                    branch |-> i[1].branchName,
                                    fromBranch |-> Some(OrElse(Arg("base"), Dev))])
  /\ UNCHANGED <<req, remote>>

----------------------------------------------------------------------------
(* case "get_issue"                                                        *)

GetIssueStart ==
  /\ pc = "dispatch"
  /\ req.name = "get_issue"
  /\ IF ~Truthy(Arg("issueId"))
     THEN Throw(calls, loc, "validation", "Issue ID is required")
     ELSE Await(Append(calls, Call("linear.issue", Arg("issueId")[1])), loc,
                "get_issue:issue")
  /\ UNCHANGED <<req, remote>>

\* the fetches the array literal starts: a reference that is not set is undefined
\* and starts none
IsSet(issue, api) == api \in issue.related

Fetches(issue) == SelectSeq(References, LAMBDA api : IsSet(issue, api)) \o Collections

\* the embedded images of the description, once every fetch has resolved
GetIssueJoin(c, l) ==
  IF l.fetching = {} THEN ImagesStart(c, l, ScannedUrls(l.issue[1].description), "embedded")
  ELSE Await(c, l, "get_issue:fetch")

\* the array literal given to Promise.all, by position
FetchArray == References \o Collections

\* the element at position p is a promise: a collection, or a reference that is set
IsStarted(issue, p) == p > Len(References) \/ IsSet(issue, FetchArray[p])

\* the array Promise.all resolves to, before any fetch has resolved
ResultsInit(issue) ==
  [p \in 1..Len(FetchArray) |-> IF IsStarted(issue, p) THEN "pending" ELSE "undefined"]

\* the position in the array of the fetch whose call is calls[k]
PositionOf(k) == CHOOSE p \in 1..Len(FetchArray) : FetchArray[p] = calls[k].api

GetIssueFound ==
  /\ pc = "get_issue:issue"
  /\ \E res \in {"ok", "fail"} :
       LET c == Respond(calls, Len(calls), res)
       IN  IF res = "fail" THEN Throw(c, loc, "remote", RemoteError)
           ELSE \E i \in IssueAnswers :
                  IF i = None THEN Throw(c, loc, "notfound", "Issue not found")
                  ELSE LET fs == Fetches(i[1])
                       IN  GetIssueJoin(
                             c \o [k \in 1..Len(fs) |-> Call(fs[k], i[1].id)],
                             [loc EXCEPT !.issue = i,
                                         !.results = ResultsInit(i[1]),
                                         !.fetching = { Len(c) + k : k \in 1..Len(fs) }])
  /\ UNCHANGED <<req, remote>>

\* a join that stores each value at the first free position, in the order of
\* completion (not what Promise.all does)
GetIssueFetchedInCompletionOrder(k) ==
  /\ pc = "get_issue:fetch"
  /\ k \in loc.fetching
  /\ \E res \in {"ok", "fail"} :
       LET c == Respond(calls, k, res)
           p == CHOOSE q \in 1..Len(loc.results) :
                  /\ loc.results[q] = "pending"
                  /\ \A r \in 1..(q - 1) : loc.results[r] # "pending"
       IN  IF res = "fail" THEN Throw(c, loc, "remote", RemoteError)
           ELSE GetIssueJoin(c, [loc EXCEPT !.fetching = @ \ {k},
                                            !.results[p] = calls[k].api])
  /\ UNCHANGED <<req, remote>>

\* one of the fetches responds; a rejection rejects Promise.all, a value is
\* stored at the position of its promise
GetIssueFetched(k) ==
  /\ pc = "get_issue:fetch"
  /\ k \in loc.fetching
  /\ \E res \in {"ok", "fail"} :
       LET c == Respond(calls, k, res)
       IN  IF res = "fail" THEN Throw(c, loc, "remote", RemoteError)
           ELSE GetIssueJoin(c, [loc EXCEPT !.fetching = @ \ {k},
                                            !.results[PositionOf(k)] = calls[k].api])
  /\ UNCHANGED <<req, remote>>

----------------------------------------------------------------------------
(* The envelope goes back to the host.                                     *)

Reply ==
  /\ pc = "done"
  /\ pc' = "idle"
  /\ req' = Req("none", NoArgs)
  /\ calls' = <<>>
  /\ loc' = LocInit
  /\ envelope' = None
  /\ outcome' = "none"
  /\ UNCHANGED remote

----------------------------------------------------------------------------

(* The process: the module's top-level statements and main().              *)

\* a credential of the environment
KeyK == <<"k">>

\* process.env.X: not set, set to "", or set to a key
EnvValues == {None, Some(Empty), Some(KeyK)}

LinearKeyRequired == "LINEAR_API_KEY environment variable is required"

GitHubTokenRequired == "GITHUB_TOKEN environment variable is required"

ConnectFailed == "Server error:"

\* the process before its first statement, with the environment it was given
ProcLoaded(linearKey, githubToken) ==
  [ stage |-> "load", linearKey |-> linearKey, githubToken |-> githubToken,
    linearClient |-> None, githubClient |-> None, handlers |-> {},
    exitCode |-> None, stderr |-> "" ]

\* the process once main() has connected the server to its transport
ProcServing ==
  [ ProcLoaded(Some(KeyK), Some(KeyK)) EXCEPT
      !.stage = "serving", !.linearClient = Some(KeyK), !.githubClient = Some(KeyK),
      !.handlers = {"ListTools", "CallTool"} ]

\* an uncaught exception at the top level: the message goes to stderr, exit code 1
Crash(message) == [proc EXCEPT !.stage = "exited", !.exitCode = Some(1), !.stderr = message]

\* if (!LINEAR_API_KEY) throw new Error(...)
CheckLinearKey ==
  /\ proc.stage = "load"
  /\ proc' = IF ~Truthy(proc.linearKey) THEN Crash(LinearKeyRequired)
             ELSE [proc EXCEPT !.stage = "linear_checked"]
  /\ UNCHANGED <<req, inv, ghPulls, ghRefs, linkHist, served, past, parked>>

\* a soft failure: without a token the process goes on (not what the source does)
CheckGitHubTokenSoft ==
  /\ proc.stage = "linear_checked"
  /\ proc' = [proc EXCEPT !.stage = "checked",
                          !.githubToken = IF Truthy(@) THEN @ ELSE Some(Empty)]
  /\ UNCHANGED <<req, inv, ghPulls, ghRefs, linkHist, served, past, parked>>

\* if (!GITHUB_TOKEN) throw new Error(...)
CheckGitHubToken ==
  /\ proc.stage = "linear_checked"
  /\ proc' = IF ~Truthy(proc.githubToken) THEN Crash(GitHubTokenRequired)
             ELSE [proc EXCEPT !.stage = "checked"]
  /\ UNCHANGED <<req, inv, ghPulls, ghRefs, linkHist, served, past, parked>>

\* const linearClient = new LinearClient(...); const githubClient = new GitHubClient(...)
ConstructClients ==
  /\ proc.stage = "checked"
  /\ proc' = [proc EXCEPT !.stage = "constructed",
                          !.linearClient = Some(proc.linearKey[1]),
                          !.githubClient = Some(proc.githubToken[1])]
  /\ UNCHANGED <<req, inv, ghPulls, ghRefs, linkHist, served, past, parked>>

\* new Server(...); server.setRequestHandler(ListToolsRequestSchema, ...);
\* server.setRequestHandler(CallToolRequestSchema, ...)
RegisterHandlers ==
  /\ proc.stage = "constructed"
  /\ proc' = [proc EXCEPT !.stage = "registered", !.handlers = {"ListTools", "CallTool"}]
  /\ UNCHANGED <<req, inv, ghPulls, ghRefs, linkHist, served, past, parked>>

\* main(): await server.connect(transport); main().catch(... process.exit(1))
Connect ==
  /\ proc.stage = "registered"
  /\ \E res \in {"ok", "fail"} :
       proc' = IF res = "ok" THEN [proc EXCEPT !.stage = "serving"]
               ELSE Crash(ConnectFailed)
  /\ UNCHANGED <<req, inv, ghPulls, ghRefs, linkHist, served, past, parked>>

----------------------------------------------------------------------------

\* the pull request the repository holds at the start: no body, a body, or a body
\* that already names the issue
InitBodies == {None, Some(TextPlain), Some(Fixes \o IssueA)}

\* the server is up and idle; the repository holds one pull request
Idle(bodies) ==
  /\ pc = "idle"
  /\ req = Req("none", NoArgs)
  /\ calls = <<>>
  /\ loc = LocInit
  /\ envelope = None
  /\ outcome = "none"
  /\ ghPulls \in {<<b>> : b \in bodies}
  /\ ghRefs = {}
  /\ linkHist = <<>>
  /\ served = 0
  /\ past = <<>>
  /\ parked = <<>>

Init ==
  /\ Idle({Some(TextPlain)})
  /\ proc = ProcServing

Next ==
  \/ \E r \in Requests : Receive(r)
  \/ UnknownTool
  \/ CreateIssueStart
  \/ CreateIssueDone
  \/ ListIssuesStart
  \/ SearchIssuesStart
  \/ ListProjectsStart
  \/ ListQueryDone
  \/ \E i \in 1..Len(loc.nodes) : NodeFetched(i)
  \/ ListTeamsStart
  \/ ListTeamsDone
  \/ UpdateIssueStart
  \/ UpdateIssueFound
  \/ UpdateIssueDone
  \/ CreateBranchStart
  \/ BranchGetRef
  \/ BranchCreateRef
  \/ UpdatePrStart
  \/ UpdatePrDone
  \/ CreatePrStart
  \/ PullCreated
  \/ GetPrStart
  \/ GetPrGot
  \/ LinkPrStart
  \/ LinkGot
  \/ LinkUpdated
  \/ FeaturePrStart
  \/ FeaturePrIssue
  \/ GetIssueStart
  \/ GetIssueFound
  \/ \E k \in loc.fetching : GetIssueFetched(k)
  \/ \E i \in 1..Len(loc.imgs) : ImageFetched(i)
  \/ Reply

Spec == Init /\ [][Next]_vars

\* the handler is between its first statement and its return
InHandler == pc \notin {"idle", "done"}

\* every remote call responds in the end, and the event loop then runs the
\* handler's continuation.  This is WF_vars(InHandler /\ Next) written out:
\* a handler that has not returned always has a run to make, at dispatch or
\* when a call it awaits responds, so ENABLED <<InHandler /\ Next>>_vars is
\* InHandler
Fairness == []<>(~InHandler) \/ []<><<InHandler /\ Next>>_vars

SpecLive == Init /\ [][Next]_vars /\ Fairness

----------------------------------------------------------------------------
(* The process from its first statement: startup, then the serving of      *)
(* requests.                                                               *)

InitStartup ==
  /\ Idle({Some(TextPlain)})
  /\ proc \in {ProcLoaded(l, g) : l \in EnvValues, g \in EnvValues}

NextStartup ==
  \/ CheckLinearKey
  \/ CheckGitHubToken
  \/ ConstructClients
  \/ RegisterHandlers
  \/ Connect
  \/ Next

SpecStartup == InitStartup /\ [][NextStartup]_vars

----------------------------------------------------------------------------
(* A session of GitHub requests: the host sends several requests, one      *)
(* after the other, to the tools that read or write the pull request.      *)

GitHubRequests == UpdatePrRequests \cup GetPrRequests \cup LinkPrRequests

\* the repository's pull request has no body, a body, or a body naming the issue
InitGitHub ==
  /\ Idle(InitBodies)
  /\ proc = ProcServing

ReceiveGitHub(r) ==
  /\ pc = "idle"
  /\ proc.stage = "serving"
  /\ served < MaxSession
  /\ served' = served + 1
  /\ pc' = "dispatch"
  /\ req' = r
  /\ calls' = <<>>
  /\ loc' = LocInit
  /\ envelope' = None
  /\ outcome' = "none"
  /\ UNCHANGED <<ghPulls, ghRefs, linkHist, proc, past, parked>>

NextGitHub ==
  \/ \E r \in GitHubRequests : ReceiveGitHub(r)
  \/ UpdatePrStart
  \/ UpdatePrDone
  \/ GetPrStart
  \/ GetPrGot
  \/ LinkPrStart
  \/ LinkGot
  \/ LinkUpdated
  \/ \E i \in 1..Len(loc.imgs) : ImageFetched(i)
  \/ Reply

SpecGitHub == InitGitHub /\ [][NextGitHub]_vars

----------------------------------------------------------------------------
(* Properties.                                                             *)

IsErrorEnvelope == envelope # None /\ envelope[1].isError

Issued(api) == \E k \in 1..Len(calls) : calls[k].api = api

\* C1: for create_issue, when the arguments are absent or title or teamId is
\* missing or empty, the invocation returns a result marked isError and
\* linearClient.createIssue is never called during the invocation.
C1_CreateIssueRequiresTitleAndTeam ==
  ( /\ req.name = "create_issue"
    /\ pc # "dispatch"
    /\ \/ ~req.args.present
       \/ req.args.title = None \/ req.args.title = Some(Empty)
       \/ req.args.teamId = None \/ req.args.teamId = Some(Empty) )
  => /\ ~Issued("linear.createIssue")
     /\ pc = "done"
     /\ IsErrorEnvelope

\* an invocation of create_issue with an empty title and a team has returned
C1_Witness ==
  /\ req.name = "create_issue"
  /\ req.args.present
  /\ req.args.title = Some(Empty)
  /\ req.args.teamId = Some(TeamT)
  /\ pc = "done"
  /\ IsErrorEnvelope
  /\ calls = <<>>

\* the request omits a property its tool's schema lists as required
MissingRequired ==
  /\ req.name \in DOMAIN Required
  /\ \E f \in Required[req.name] : Arg(f) = None

\* the request gives a priority outside the range its tool's schema declares
PriorityOutOfRange ==
  /\ req.name \in {"create_issue", "update_issue"}
  /\ Arg("priority") # None
  /\ Arg("priority")[1] \notin PriorityMinimum..PriorityMaximum

\* C2: for every advertised operation the arguments are validated against the
\* declared schema before any remote call: an invocation that omits a required
\* property or gives a priority outside 0..4 returns an error result and issues
\* no remote call.
C2_SchemaValidatedBeforeRemoteCall ==
  ( /\ pc # "dispatch"
    /\ MissingRequired \/ PriorityOutOfRange )
  => /\ calls = <<>>
     /\ pc = "done"
     /\ IsErrorEnvelope

\* C3: every invocation, for any tool name and any arguments, ends in exactly
\* one envelope and never in an exception that leaves the handler: a success
\* envelope, or an error envelope carrying the message; a handler that could
\* not complete (missing argument, not found, remote rejection, unknown tool)
\* always yields the error envelope.
C3_EveryInvocationEndsInOneEnvelope ==
  /\ pc = "done" =>
       /\ outcome = "returned"
       /\ envelope # None
       /\ envelope[1].isError = (loc.threw # "none")
       /\ envelope[1].isError => envelope[1].text[1] = "Linear API error: "
       /\ req.name \notin ToolNames => envelope[1].isError
       /\ (\E k \in 1..Len(calls) : calls[k].res = "fail" /\ calls[k].api # "axios.get")
            => envelope[1].isError
  /\ pc # "done" => envelope = None /\ outcome = "none"

\* an invocation whose remote call was rejected has returned the error envelope
C3_Witness ==
  /\ pc = "done"
  /\ loc.threw = "remote"
  /\ \E k \in 1..Len(calls) : calls[k].res = "fail"
  /\ outcome = "returned"
  /\ IsErrorEnvelope

ListApis == {"linear.issues", "linear.searchIssues", "linear.projects"}

\* C4: for list_issues, list_projects and search_issues the remote call is made
\* with first = 50 when the caller omits first, and with the caller's value
\* when the caller supplies one.
C4_DefaultPageSize ==
  \A k \in 1..Len(calls) :
    calls[k].api \in ListApis =>
      calls[k].arg.first =
        (IF ~req.args.present \/ req.args.first = None THEN 50 ELSE req.args.first[1])

\* a list request that supplies first = 0 has issued its remote call with 0
C4_Witness ==
  /\ req.args.present
  /\ req.args.first = Some(0)
  /\ \E k \in 1..Len(calls) : calls[k].api \in ListApis /\ calls[k].arg.first = 0

\* the filter f has key iff wanted, and then maps it to path: { eq: value }
FilterKey(f, key, wanted, path, value) ==
  /\ (key \in DOMAIN f) = wanted
  /\ wanted => f[key] = [path |-> <<path, "eq">>, value |-> value[1]]

\* C5 (as amended): in list_issues the filter passed to the remote API has the
\* key team, assignee, state exactly for each of teamId, assigneeId, status that
\* is supplied and not the empty string, with the value {id: {eq}}, {id: {eq}},
\* {name: {eq}} of that argument, and no other key.
C5_FilterFromNonEmptyArguments ==
  \A k \in 1..Len(calls) :
    calls[k].api = "linear.issues" =>
      LET f == calls[k].arg.filter
      IN  /\ DOMAIN f \subseteq {"team", "assignee", "state"}
          /\ FilterKey(f, "team", Truthy(Arg("teamId")), "id", Arg("teamId"))
          /\ FilterKey(f, "assignee", Truthy(Arg("assigneeId")), "id", Arg("assigneeId"))
          /\ FilterKey(f, "state", Truthy(Arg("status")), "name", Arg("status"))

\* list_issues with a team and the empty string as status has queried by team only
C5_Witness ==
  /\ req.name = "list_issues"
  /\ Arg("teamId") = Some(TeamT)
  /\ Arg("status") = Some(Empty)
  /\ \E k \in 1..Len(calls) :
       /\ calls[k].api = "linear.issues"
       /\ DOMAIN calls[k].arg.filter = {"team"}

\* C5 as stated: the filter has a key for each supplied argument and no key for
\* an omitted one.
C5_FilterFromSuppliedArguments ==
  \A k \in 1..Len(calls) :
    calls[k].api = "linear.issues" =>
      LET f == calls[k].arg.filter
      IN  /\ DOMAIN f \subseteq {"team", "assignee", "state"}
          /\ FilterKey(f, "team", Arg("teamId") # None, "id", Arg("teamId"))
          /\ FilterKey(f, "assignee", Arg("assigneeId") # None, "id", Arg("assigneeId"))
          /\ FilterKey(f, "state", Arg("status") # None, "name", Arg("status"))

\* C6: in list_projects a team filter is never sent under the key "team": the
\* filter passed to linearClient.projects has no "team" key, and with teamId
\* supplied it is {accessibleTeams: {some: {id: {eq: teamId}}}}.
C6_ProjectsFilterUsesAccessibleTeams ==
  \A k \in 1..Len(calls) :
    calls[k].api = "linear.projects" =>
      LET f == calls[k].arg.filter
      IN  /\ "team" \notin DOMAIN f
          /\ Truthy(Arg("teamId")) =>
               /\ DOMAIN f = {"accessibleTeams"}
               /\ f["accessibleTeams"] =
                    [path |-> <<"some", "id", "eq">>, value |-> Arg("teamId")[1]]

\* the urls of the image references ![alt](url) of an optional text, in source order
ReferencedUrls(otext) == IF otext = None THEN <<>> ELSE ImageUrlsFrom(otext[1], 1)

UrlsOf(pairs) == [i \in 1..Len(pairs) |-> pairs[i].url]

\* C7: the image scanner returns, for a text with n image references
\* ![alt](url), exactly n pairs whose urls are the referenced urls in source
\* order, whatever order the fetches complete in, and an empty sequence for a
\* text with no reference or an absent text.
C7_ScannerReturnsReferencedUrls ==
  /\ (req.name = "get_issue" /\ loc.phase = "attachments") =>
       UrlsOf(loc.embedded) = ReferencedUrls(loc.issue[1].description)
  /\ (req.name = "github_create_pr" /\ loc.phase = "create_pr" /\ ImagesJoined(loc.imgs)) =>
       UrlsOf(Pairs(loc.imgs)) = ReferencedUrls(Arg("body"))

BranchAndPullApis == {"git.getRef", "git.createRef", "pulls.create", "pulls.get", "pulls.update"}

\* C8: create_feature_pr for an issue whose branchName is empty or absent
\* returns an error result, and neither createBranch, createPullRequest nor
\* linkPullRequestToLinear is called in that invocation.
C8_NoBranchNameNoSideEffect ==
  ( /\ req.name = "create_feature_pr"
    /\ loc.issue # None
    /\ loc.issue[1].branchName \in {None, Some(Empty)} )
  => /\ \A k \in 1..Len(calls) : calls[k].api \notin BranchAndPullApis
     /\ pc = "done"
     /\ IsErrorEnvelope

\* create_feature_pr has found an issue with the empty string as branch name and
\* returned
C8_Witness ==
  /\ req.name = "create_feature_pr"
  /\ loc.issue # None
  /\ loc.issue[1].branchName = Some(Empty)
  /\ Len(calls) = 1
  /\ calls[1].res = "ok"
  /\ pc = "done"
  /\ IsErrorEnvelope

\* C9: linking is idempotent: after the link is invoked twice in sequence with
\* the same issueId on the same pull request, the body holds the marker
\* "Fixes <issueId>" exactly once and equals the body after the first link.
C9_LinkIsIdempotent ==
  ( /\ Len(linkHist) = 2
    /\ linkHist[1].pull = linkHist[2].pull
    /\ linkHist[1].issueId = linkHist[2].issueId )
  => /\ linkHist[2].body = linkHist[1].body
     /\ Occurrences(linkHist[2].body, Fixes \o ToStr(linkHist[2].issueId)) = 1

EndsWith(text, suffix) ==
  /\ Len(text) >= Len(suffix)
  /\ SubSeq(text, Len(text) - Len(suffix) + 1, Len(text)) = suffix

StartsWith(text, prefix) ==
  /\ Len(text) >= Len(prefix)
  /\ SubSeq(text, 1, Len(prefix)) = prefix

\* C10: linking appends the marker "Fixes <issueId>" to the end of the body only
\* when the issue identifier is not already present: if the body read contains
\* issueId no update call is issued, otherwise the new body is the old body
\* followed by the marker, the old body preserved as a prefix.
C10_LinkAppendsOnlyIfAbsent ==
  ( /\ req.name = "github_link_pr_to_linear"
    /\ req.args.present
    /\ req.args.issueId # None
    /\ Len(calls) >= 1
    /\ calls[1].api = "pulls.get"
    /\ calls[1].res = "ok" )
  => LET old == OrElse(loc.read, Empty)
         marker == Fixes \o ToStr(loc.link.issueId)
     IN  IF Includes(old, ToStr(loc.link.issueId))
         THEN ~Issued("pulls.update")
         ELSE \A k \in 1..Len(calls) :
                calls[k].api = "pulls.update" =>
                  /\ StartsWith(calls[k].arg.body[1], old)
                  /\ EndsWith(calls[k].arg.body[1], marker)

IssueTools == {"update_issue", "get_issue", "create_feature_pr"}

\* the lookup of the issue has resolved, to nothing
LookupEmpty ==
  /\ Len(calls) >= 1
  /\ calls[1].api = "linear.issue"
  /\ calls[1].res = "ok"
  /\ loc.issue = None

\* C11: in update_issue, get_issue and create_feature_pr, when the issue
\* identifier is missing or linearClient.issue resolves to an empty value, the
\* invocation returns an error result and no later remote call of the handler
\* (issue.update, the related fetches, createBranch, createPullRequest,
\* linkPullRequestToLinear) is issued.
C11_EmptyLookupIsAnError ==
  /\ ( /\ req.name \in IssueTools
       /\ pc # "dispatch"
       /\ ~req.args.present \/ req.args.issueId \in {None, Some(Empty)} )
     => calls = <<>> /\ pc = "done" /\ IsErrorEnvelope
  /\ (req.name \in IssueTools /\ LookupEmpty)
     => Len(calls) = 1 /\ pc = "done" /\ IsErrorEnvelope

\* get_issue has looked up an issue, the lookup resolved to nothing, and the
\* invocation has returned
C11_Witness ==
  /\ req.name = "get_issue"
  /\ LookupEmpty
  /\ pc = "done"
  /\ IsErrorEnvelope

\* the calls of createBranch, createPullRequest and linkPullRequestToLinear that
\* the invocation has issued, in the order of issue
IsBranchOrPullCall(c) == c.api \in BranchAndPullApis

FeatureCalls == SelectSeq(calls, IsBranchOrPullCall)

FeatureOrder == <<"git.getRef", "git.createRef", "pulls.create", "pulls.get", "pulls.update">>

\* C12: create_feature_pr issues its remote side effects in the order branch
\* creation, pull-request creation, linking: a step is started only after
\* every earlier step has succeeded, and once a step fails no later step of
\* the invocation is started.
C12_FeaturePrStepsInOrder ==
  req.name = "create_feature_pr" =>
    /\ Len(FeatureCalls) <= Len(FeatureOrder)
    /\ \A k \in 1..Len(FeatureCalls) :
         /\ FeatureCalls[k].api = FeatureOrder[k]
         /\ k < Len(FeatureCalls) => FeatureCalls[k].res = "ok"
    /\ \A k \in 1..Len(calls) :
         (calls[k].res = "fail" /\ calls[k].api # "axios.get")
           => k = Len(calls) /\ pc = "done"

\* create_feature_pr has created the branch, created the pull request, linked
\* it and returned
C12_Witness ==
  /\ req.name = "create_feature_pr"
  /\ pc = "done"
  /\ ~IsErrorEnvelope
  /\ Len(FeatureCalls) = Len(FeatureOrder)
  /\ \A k \in 1..Len(FeatureCalls) : FeatureCalls[k].res = "ok"

\* the k-th call of the invocation is api and succeeded
Succeeded(api) == \E k \in 1..Len(calls) : calls[k].api = api /\ calls[k].res = "ok"

Rejected(api) == \E k \in 1..Len(calls) : calls[k].api = api /\ calls[k].res = "fail"

\* C13: create_feature_pr never compensates: when pull-request creation or
\* linking fails after the branch (and possibly the pull request) was created,
\* the invocation returns an error result, issues no call that deletes the
\* branch or closes the pull request, and the branch and the pull request
\* created by the earlier steps remain in the remote state.
C13_FeaturePrNeverCompensates ==
  ( /\ req.name = "create_feature_pr"
    /\ Succeeded("git.createRef")
    /\ Rejected("pulls.create") \/ Rejected("pulls.get") \/ Rejected("pulls.update") )
  => /\ pc = "done"
     /\ IsErrorEnvelope
     /\ \A k \in 1..Len(calls) :
          calls[k].api \in {"linear.issue", "axios.get"} \cup BranchAndPullApis
     /\ calls[Len(calls)].res = "fail"
     /\ loc.issue[1].branchName[1] \in ghRefs
     /\ Succeeded("pulls.create") =>
          /\ loc.pr # None
          /\ loc.pr[1] \in 1..Len(ghPulls)
          /\ ghPulls[loc.pr[1]] = Some(FeatureBody(loc.issue[1]))

\* create_feature_pr has created the branch and the pull request, the link was
\* rejected, and both are in the repository
C13_Witness ==
  /\ req.name = "create_feature_pr"
  /\ pc = "done"
  /\ IsErrorEnvelope
  /\ Succeeded("git.createRef")
  /\ Succeeded("pulls.create")
  /\ Rejected("pulls.update")
  /\ BranchB \in ghRefs
  /\ Len(ghPulls) = 2

\* the calls of the related fetches that get_issue has issued
IsFetchCall(c) == \E p \in 1..Len(FetchArray) : FetchArray[p] = c.api

FetchCalls == SelectSeq(calls, IsFetchCall)

\* C14: get_issue starts the ten related fetches (state, assignee, creator,
\* team, project, parent, cycle, labels, comments, attachments) together and
\* joins on all of them: the result is produced only after every one has
\* completed, it is the same for every completion order, and if any one fails
\* the invocation returns an error result instead of a partial record.
C14_GetIssueJoinsAllFetches ==
  (req.name = "get_issue" /\ loc.issue # None) =>
    /\ Len(FetchArray) = 10
    /\ FetchCalls = [k \in 1..Len(Fetches(loc.issue[1])) |->
                      [api |-> Fetches(loc.issue[1])[k], arg |-> loc.issue[1].id,
                       res |-> FetchCalls[k].res]]
    /\ (\E k \in 1..Len(FetchCalls) : FetchCalls[k].res = "pending")
         => pc = "get_issue:fetch" \/ (pc = "done" /\ IsErrorEnvelope)
    /\ (\E k \in 1..Len(FetchCalls) : FetchCalls[k].res = "fail")
         => pc = "done" /\ IsErrorEnvelope
    /\ (pc = "done" /\ ~IsErrorEnvelope) =>
         /\ \A k \in 1..Len(FetchCalls) : FetchCalls[k].res = "ok"
         /\ envelope[1].text[2].fetched =
              [p \in 1..Len(FetchArray) |->
                 IF IsStarted(loc.issue[1], p) THEN FetchArray[p] ELSE "undefined"]

\* get_issue has returned the record of an issue after ten fetches
C14_Witness ==
  /\ req.name = "get_issue"
  /\ pc = "done"
  /\ ~IsErrorEnvelope
  /\ Len(FetchCalls) = 10
  /\ \A k \in 1..Len(FetchCalls) : FetchCalls[k].res = "ok"

\* the number of calls of api the invocation has issued
Count(api) == Cardinality({ k \in 1..Len(calls) : calls[k].api = api })

ListTools == {"list_issues", "search_issues", "list_projects"}

\* the call sites inside a map callback of a list operation: one call per record
PerNodeApis == {"issue.state", "issue.assignee", "project.teams"}

\* the call site of api runs once per item (a record, an image), not once
IsPerItem(api) == api = "axios.get" \/ (req.name \in ListTools /\ api \in PerNodeApis)

\* C15: no remote call is retried: within one invocation each call site is
\* executed at most once per item, after a remote call fails the same call is
\* not issued again, and one create_issue, update_issue or github_create_pr
\* invocation issues at most one remote mutation of that kind.
C15_NoRetry ==
  /\ \A k \in 1..Len(calls) :
       ~IsPerItem(calls[k].api) => Count(calls[k].api) = 1
  /\ req.name \in ListTools => \A a \in PerNodeApis : Count(a) <= Len(loc.nodes)
  /\ Count("axios.get") = Len(loc.embedded) + Len(loc.imgs)
  /\ (\E k \in 1..Len(calls) : calls[k].res = "fail" /\ calls[k].api # "axios.get")
       => pc = "done"
  /\ Count("linear.createIssue") <= 1
  /\ Count("issue.update") <= 1
  /\ Count("pulls.create") <= 1

\* the createIssue of a create_issue invocation was rejected and the invocation
\* has returned after that single call
C15_Witness ==
  /\ req.name = "create_issue"
  /\ pc = "done"
  /\ Rejected("linear.createIssue")
  /\ Len(calls) = 1
  /\ IsErrorEnvelope

\* C16: no failure is silently swallowed: in every invocation, if any outbound
\* call made by the handler fails, the fetch of an image by analyzeImage
\* included, the invocation returns a result marked isError and not a success
\* result.
C16_NoFailureSwallowed ==
  (pc = "done" /\ \E k \in 1..Len(calls) : calls[k].res = "fail") => IsErrorEnvelope

----------------------------------------------------------------------------
(* A session of requests of several kinds, with the record of the          *)
(* invocations answered: an unknown tool, create_issue, update_issue,      *)
(* list_teams and the link of a pull request.                              *)

SessionRequests ==
  UnknownRequests
    \cup { Req("create_issue", NoArgs),
           Req("create_issue", [NoFields EXCEPT !.title = Some(TitleT),
                                                !.teamId = Some(TeamT)]) }
    \cup { Req("update_issue", [NoFields EXCEPT !.issueId = Some(IssueA),
                                                !.title = Some(TitleT)]) }
    \cup ListTeamsRequests
    \cup { Req("github_link_pr_to_linear",
               [NoFields EXCEPT !.owner = Some(OwnerO), !.repo = Some(RepoR),
                                !.pullNumber = Some(1), !.issueId = Some(IssueA)]) }

SessionReceive(r) == ReceiveGitHub(r)

\* the record of the invocation that has just returned
Answered ==
  [ name |-> req.name, threw |-> loc.threw, isError |-> envelope[1].isError,
    req |-> req, calls |-> calls, issue |-> loc.issue, envelope |-> envelope ]

\* an envelope that ends the process when it is an error envelope (not what the
\* source does)
SessionReplyExits ==
  /\ pc = "done"
  /\ pc' = "idle"
  /\ req' = Req("none", NoArgs)
  /\ calls' = <<>>
  /\ loc' = LocInit
  /\ envelope' = None
  /\ outcome' = "none"
  /\ past' = Append(past, Answered)
  /\ UNCHANGED parked
  /\ proc' = IF envelope[1].isError THEN Crash(ConnectFailed) ELSE proc
  /\ UNCHANGED <<ghPulls, ghRefs, linkHist, served>>

\* the envelope goes back to the host, and the session records the invocation
SessionReply ==
  /\ pc = "done"
  /\ pc' = "idle"
  /\ req' = Req("none", NoArgs)
  /\ calls' = <<>>
  /\ loc' = LocInit
  /\ envelope' = None
  /\ outcome' = "none"
  /\ past' = Append(past, Answered)
  /\ UNCHANGED parked
  /\ UNCHANGED <<ghPulls, ghRefs, linkHist, served, proc>>

NextSession ==
  \/ \E r \in SessionRequests : SessionReceive(r)
  \/ UnknownTool
  \/ CreateIssueStart
  \/ CreateIssueDone
  \/ UpdateIssueStart
  \/ UpdateIssueFound
  \/ UpdateIssueDone
  \/ ListTeamsStart
  \/ ListTeamsDone
  \/ LinkPrStart
  \/ LinkGot
  \/ LinkUpdated
  \/ SessionReply

SpecSession == InitGitHub /\ [][NextSession]_vars

----------------------------------------------------------------------------

\* C17: startup is all-or-nothing on credentials: if LINEAR_API_KEY or
\* GITHUB_TOKEN is absent or empty the process fails at startup with an error
\* naming the missing variable and exit code 1, never constructs the remote
\* clients, never registers the request handlers and never serves a request; a
\* failure of server.connect likewise ends the process with exit code 1.
C17_StartupAllOrNothing ==
  /\ ( /\ proc.stage # "load"
       /\ proc.linearKey \in {None, Some(Empty)} ) =>
       /\ proc.stage = "exited"
       /\ proc.exitCode = Some(1)
       /\ proc.stderr = LinearKeyRequired
  /\ ( /\ proc.stage \notin {"load", "linear_checked"}
       /\ proc.linearKey \notin {None, Some(Empty)}
       /\ proc.githubToken \in {None, Some(Empty)} ) =>
       /\ proc.stage = "exited"
       /\ proc.exitCode = Some(1)
       /\ proc.stderr = GitHubTokenRequired
  /\ (proc.linearKey \in {None, Some(Empty)} \/ proc.githubToken \in {None, Some(Empty)}) =>
       /\ proc.linearClient = None
       /\ proc.githubClient = None
       /\ proc.handlers = {}
       /\ served = 0
       /\ pc = "idle"
  /\ proc.stage = "exited" => proc.exitCode = Some(1) /\ served = 0 /\ pc = "idle"
  /\ served > 0 => proc.stage = "serving"
  /\ proc.stage = "serving" =>
       /\ proc.linearClient = proc.linearKey
       /\ proc.githubClient = proc.githubToken
       /\ proc.handlers = {"ListTools", "CallTool"}
       /\ proc.exitCode = None

\* the process was started with a Linear key and an empty GitHub token, and has
\* exited
C17_Witness ==
  /\ proc.linearKey = Some(KeyK)
  /\ proc.githubToken = Some(Empty)
  /\ proc.stage = "exited"
  /\ proc.exitCode = Some(1)
  /\ proc.stderr = GitHubTokenRequired

\* an earlier invocation of the session returned an error result
ErrorBefore == \E i \in 1..Len(past) : past[i].isError

\* the current invocation is valid and the remote accepted each of its calls
ValidAndAccepted ==
  /\ req.name \in ToolNames
  /\ ~MissingRequired
  /\ Len(calls) >= 1
  /\ \A k \in 1..Len(calls) : calls[k].res = "ok"
  /\ req.name = "update_issue" => loc.issue # None

\* C18: a tool-level error never stops the server: after any invocation that
\* returned an error result (validation error, not found, remote rejection,
\* unknown tool) the process is still serving, and a later valid invocation is
\* dispatched and answered normally.
C18_ErrorsDoNotStopServing ==
  /\ proc.stage = "serving"
  /\ proc.exitCode = None
  /\ proc.handlers = {"ListTools", "CallTool"}
  /\ (ErrorBefore /\ pc = "done" /\ ValidAndAccepted) =>
       /\ envelope # None
       /\ ~envelope[1].isError
       /\ loc.threw = "none"
  /\ (ErrorBefore /\ pc = "done" /\ ~ValidAndAccepted) => IsErrorEnvelope

\* after a validation error, a not-found error, a remote rejection or an
\* unknown tool, a valid create_issue has been answered with the created issue
C18_Witness ==
  /\ Len(past) = 1
  /\ past[1].isError
  /\ past[1].threw \in {"validation", "notfound", "remote", "unknown"}
  /\ req.name = "create_issue"
  /\ pc = "done"
  /\ ValidAndAccepted
  /\ ~IsErrorEnvelope

MutatingApis == {"pulls.update", "pulls.create", "git.createRef"}

\* the invocation recorded in e left the repository as it found it
LeftRepository(e) ==
  \A k \in 1..Len(e.calls) : e.calls[k].api \in MutatingApis => e.calls[k].res # "ok"

\* the remote gave the invocation recorded in e and the current one the same
\* responses, as far as both asked
SameResponses(e) ==
  /\ e.issue = loc.issue
  /\ \A k \in 1..Len(e.calls) : k <= Len(calls) => e.calls[k].res = calls[k].res

\* C19: invocations are independent and stateless: the server keeps no mutable
\* state between invocations, so the same invocation run against the same
\* remote state issues the same remote calls and returns the same envelope
\* whatever invocations came before; the client handles are never reassigned
\* after startup.
C19_InvocationsAreStateless ==
  /\ proc = ProcServing
  /\ pc \in {"idle", "dispatch"} =>
       calls = <<>> /\ loc = LocInit /\ envelope = None /\ outcome = "none"
  /\ (pc = "done" /\ past # <<>>) =>
       LET e == past[Len(past)]
       IN  (e.req = req /\ LeftRepository(e) /\ SameResponses(e)) =>
             /\ calls = e.calls
             /\ envelope = e.envelope

\* the same request was answered twice in a row against the same repository
\* with the same responses, the second time after one more invocation
C19_Witness ==
  /\ pc = "done"
  /\ Len(past) >= 1
  /\ past[Len(past)].req = req
  /\ req.name = "github_link_pr_to_linear"
  /\ LeftRepository(past[Len(past)])
  /\ SameResponses(past[Len(past)])
  /\ Len(calls) = 2
  /\ calls = past[Len(past)].calls

----------------------------------------------------------------------------
(* Two invocations in flight.  The handler is an async function: at each   *)
(* await it returns to the event loop, and nothing in the handler keeps    *)
(* the transport from calling it again for the next inbound request.       *)

\* the invocation that is running, as it is kept while the other one runs
Running ==
  [ pc |-> pc, req |-> req, calls |-> calls, loc |-> loc,
    envelope |-> envelope, outcome |-> outcome ]

\* the handler's continuation c is taken up
Continue(c) ==
  /\ pc' = c.pc
  /\ req' = c.req
  /\ calls' = c.calls
  /\ loc' = c.loc
  /\ envelope' = c.envelope
  /\ outcome' = c.outcome

\* the handler is suspended at an await: a remote call has not answered yet
Suspended == \E k \in 1..Len(calls) : calls[k].res = "pending"

\* a second request arrives while the handler of the first is suspended
ReceiveWhileSuspended(r) ==
  /\ Suspended
  /\ parked = <<>>
  /\ proc.stage = "serving"
  /\ served < MaxSession
  /\ served' = served + 1
  /\ parked' = <<Running>>
  /\ pc' = "dispatch"
  /\ req' = r
  /\ calls' = <<>>
  /\ loc' = LocInit
  /\ envelope' = None
  /\ outcome' = "none"
  /\ UNCHANGED <<ghPulls, ghRefs, linkHist, proc, past>>

\* the running handler is suspended and the event loop takes up the other one
Resume ==
  /\ Suspended
  /\ parked # <<>>
  /\ Continue(parked[1])
  /\ parked' = <<Running>>
  /\ UNCHANGED <<ghPulls, ghRefs, linkHist, served, proc, past>>

\* the envelope goes back to the host; the other handler, if any, goes on
ConcurrentReply ==
  /\ pc = "done"
  /\ IF parked = <<>>
     THEN Continue([ pc |-> "idle", req |-> Req("none", NoArgs), calls |-> <<>>,
                     loc |-> LocInit, envelope |-> None, outcome |-> "none" ])
     ELSE Continue(parked[1])
  /\ parked' = <<>>
  /\ UNCHANGED <<ghPulls, ghRefs, linkHist, served, proc, past>>

NextConcurrent ==
  \/ \E r \in GitHubRequests : ReceiveGitHub(r)
  \/ \E r \in GitHubRequests : ReceiveWhileSuspended(r)
  \/ Resume
  \/ UpdatePrStart
  \/ UpdatePrDone
  \/ GetPrStart
  \/ GetPrGot
  \/ LinkPrStart
  \/ LinkGot
  \/ LinkUpdated
  \/ \E i \in 1..Len(loc.imgs) : ImageFetched(i)
  \/ ConcurrentReply

SpecConcurrent == InitGitHub /\ [][NextConcurrent]_vars

\* C20: at most one tool invocation is in progress at any time: the handler of
\* a second inbound invocation does not start issuing remote calls until the
\* first invocation has produced its envelope, so the remote calls of two
\* invocations never interleave.
C20_OneInvocationAtATime ==
  parked # <<>> =>
    \/ parked[1].envelope # None
    \/ parked[1].calls = <<>>
    \/ calls = <<>>

\* C21: createBranch first resolves the commit of the source branch (fromBranch,
\* or "dev" when fromBranch is omitted) and then creates refs/heads/<branch> at
\* exactly that commit: createRef is never issued before getRef has succeeded,
\* and if getRef fails no reference is created.
C21_BranchFromResolvedCommit ==
  \A k \in 1..Len(calls) :
    /\ calls[k].api = "git.getRef" =>
         /\ calls[k].arg.ref = <<"heads/", Coalesce(loc.branch.fromBranch, Dev)>>
         /\ calls[k].res = "fail" =>
              /\ ~Issued("git.createRef")
              /\ pc = "done" /\ IsErrorEnvelope
         /\ calls[k].res = "pending" => ~Issued("git.createRef")
    /\ calls[k].api = "git.createRef" =>
         /\ k > 1
         /\ calls[k - 1].api = "git.getRef"
         /\ calls[k - 1].res = "ok"
         /\ calls[k].arg.sha = loc.sha
         /\ calls[k].arg.ref = <<"refs/heads/", ToStr(loc.branch.branch)>>
         /\ calls[k].res = "ok" => ToStr(loc.branch.branch) \in ghRefs

\* github_create_branch without fromBranch has created the branch from "dev"
C21_Witness ==
  /\ req.name = "github_create_branch"
  /\ req.args.fromBranch = None
  /\ pc = "done"
  /\ ~IsErrorEnvelope
  /\ Len(calls) = 2
  /\ calls[1].arg.ref = <<"heads/", Dev>>
  /\ calls[2].res = "ok"
  /\ calls[2].arg.sha = loc.sha
  /\ BranchB \in ghRefs

----------------------------------------------------------------------------
(* create_issue followed by get_issue.                                     *)

RoundTripRequests ==
  { Req("create_issue", [NoFields EXCEPT !.title = Some(t), !.teamId = Some(TeamT),
                                         !.description = d]) :
      t \in {TitleT, TitleV}, d \in {None, Some(TextOne)} }
    \cup { Req("get_issue", [NoFields EXCEPT !.issueId = Some(IssueA)]) }

\* the last invocation answered was a create_issue that the remote accepted
Created ==
  /\ past # <<>>
  /\ past[Len(past)].name = "create_issue"
  /\ ~past[Len(past)].isError

\* the host creates an issue, and fetches an issue it has just created
RoundTripReceive(r) ==
  /\ r.name = "get_issue" => Created
  /\ ReceiveGitHub(r)

NextRoundTrip ==
  \/ \E r \in RoundTripRequests : RoundTripReceive(r)
  \/ CreateIssueStart
  \/ CreateIssueDone
  \/ GetIssueStart
  \/ GetIssueFound
  \/ \E k \in 1..Len(calls) : GetIssueFetched(k)
  \/ \E i \in 1..Len(loc.imgs) : ImageFetched(i)
  \/ SessionReply

SpecRoundTrip == Init /\ [][NextRoundTrip]_vars

\* what createIssue was given by the create_issue recorded in e
CreateInput(e) == e.calls[Len(e.calls)].arg

\* the remote holds the issue as createIssue was given it
StoredAsCreated(e, issue) ==
  /\ issue.title = CreateInput(e).title
  /\ issue.description = CreateInput(e).description
  /\ "issue.team" \in issue.related
  /\ issue.teamId = CreateInput(e).teamId

\* C22: creating an issue and then fetching it round-trips: for a title and a
\* teamId accepted by the remote system, get_issue on the issue that create_issue
\* created yields a record whose title equals the creation title and whose
\* team.id equals the creation teamId, no other mutation happening in between.
C22_CreateThenGetRoundTrips ==
  ( /\ req.name = "get_issue"
    /\ pc = "done"
    /\ ~IsErrorEnvelope
    /\ Created
    /\ StoredAsCreated(past[Len(past)], loc.issue[1]) ) =>
      LET e == past[Len(past)]
      IN  /\ calls[1].api = "linear.issue"
          /\ calls[1].arg = req.args.issueId[1]
          /\ envelope[1].text[2].title = e.req.args.title[1]
          /\ envelope[1].text[2].team = Some([id |-> e.req.args.teamId[1]])

\* an issue titled "v" was created and then fetched
C22_Witness ==
  /\ req.name = "get_issue"
  /\ pc = "done"
  /\ ~IsErrorEnvelope
  /\ Created
  /\ StoredAsCreated(past[Len(past)], loc.issue[1])
  /\ past[Len(past)].req.args.title = Some(TitleV)
  /\ envelope[1].text[2].title = TitleV

\* a call of the issue tracker or of the source host (not an image fetch) failed
RemoteCallFailed ==
  \E k \in 1..Len(calls) : calls[k].api # "axios.get" /\ calls[k].res = "fail"

\* C23: a remote API error is surfaced verbatim: whenever a remote call of the
\* issue tracker or of the source host fails with message m, the invocation's
\* error result carries m unchanged as its message text.
C23_RemoteErrorVerbatim ==
  (pc = "done" /\ RemoteCallFailed) =>
    /\ IsErrorEnvelope
    /\ envelope[1].text = RemoteError

----------------------------------------------------------------------------
(* GitHubClient.createPullRequest with the PR-template lookup              *)
(* (utils/github.ts).                                                      *)

TemplatePaths ==
  << ".github/pull_request_template.md", ".github/PULL_REQUEST_TEMPLATE.md",
     "docs/pull_request_template.md", "PULL_REQUEST_TEMPLATE.md" >>

\* data.content of a file: the text in base64
Base64(text) == <<"base64", text>>

\* Buffer.from(content, "base64").toString()
FromBase64(content) == content[2]

\* what repos.getContent can answer: a rejection, a directory listing (no
\* "content" in data), or a file
ContentAnswers ==
  { [kind |-> "threw", content |-> None], [kind |-> "directory", content |-> None] }
    \cup { [kind |-> "file", content |-> Some(Base64(t))] : t \in {Empty, TextPlain} }

TemplateCalls ==
  { Req("createPullRequest",
        [NoFields EXCEPT !.owner = Some(OwnerO), !.repo = Some(RepoR),
                         !.title = Some(TitleT), !.head = Some(BranchB),
                         !.base = Some(BaseM), !.body = b, !.issueId = i]) :
      b \in {None, Some(Empty), Some(TextPlain)}, i \in {None, Some(IssueA)} }

GetContent(n) ==
  Call("repos.getContent", [owner |-> Arg("owner"), repo |-> Arg("repo"),
                            path |-> TemplatePaths[n]])

\* fillPRTemplate: each replace leaves a template without section headings as it
\* is, and the templates of ContentAnswers have none
FillPRTemplate(template) == template

\* getPRTemplate has returned template (None for null): pulls.create({...params, body})
TemplateReturned(c, l, template) ==
  PullBegin(c, [l EXCEPT !.read = template],
            [owner |-> Arg("owner"), repo |-> Arg("repo"), title |-> Arg("title"),
             head |-> Arg("head"), base |-> Arg("base"),
             body |-> IF Truthy(template) THEN Some(FillPRTemplate(template[1]))
                      ELSE Arg("body")])

\* createPullRequest(params) is called: if (params.linearIssue && !params.body)
\* the template is looked up, starting with the first path
CreatePullRequestCalled(r) ==
  /\ pc = "idle"
  /\ served < MaxSession
  /\ served' = served + 1
  /\ req' = r
  /\ envelope' = None
  /\ outcome' = "none"
  /\ IF Truthy(r.args.issueId) /\ ~Truthy(r.args.body)
     THEN /\ pc' = "template:get"
          /\ calls' = <<Call("repos.getContent",
                             [owner |-> r.args.owner, repo |-> r.args.repo,
                              path |-> TemplatePaths[1]])>>
          /\ loc' = LocInit
     ELSE /\ pc' = "pr:create"
          /\ calls' = <<Call("pulls.create",
                             [owner |-> r.args.owner, repo |-> r.args.repo,
                              title |-> r.args.title, head |-> r.args.head,
                              base |-> r.args.base, body |-> r.args.body])>>
          /\ loc' = LocInit
  /\ UNCHANGED <<ghPulls, ghRefs, linkHist, proc, past, parked>>

\* a lookup that gives up at the first path that cannot be fetched (not what the
\* source does)
GetContentGivesUp ==
  /\ pc = "template:get"
  /\ \E d \in ContentAnswers :
       LET n == Len(calls)
           c == Respond(calls, n, IF d.kind = "threw" THEN "fail" ELSE "ok")
           l == [loc EXCEPT !.results = Append(@, d)]
       IN  IF d.kind = "file" THEN TemplateReturned(c, l, Some(FromBase64(d.content[1])))
           ELSE IF d.kind = "directory" /\ n < Len(TemplatePaths)
           THEN Await(Append(c, GetContent(n + 1)), l, "template:get")
           ELSE TemplateReturned(c, l, None)
  /\ UNCHANGED <<req, remote>>

\* getPRTemplate, after getContent of a path: a file is returned decoded; a
\* rejection or a directory goes on to the next path; null after the last
GetContentDone ==
  /\ pc = "template:get"
  /\ \E d \in ContentAnswers :
       LET n == Len(calls)
           c == Respond(calls, n, IF d.kind = "threw" THEN "fail" ELSE "ok")
           l == [loc EXCEPT !.results = Append(@, d)]
       IN  IF d.kind = "file" THEN TemplateReturned(c, l, Some(FromBase64(d.content[1])))
           ELSE IF n < Len(TemplatePaths)
           THEN Await(Append(c, GetContent(n + 1)), l, "template:get")
           ELSE TemplateReturned(c, l, None)
  /\ UNCHANGED <<req, remote>>

\* pulls.create responds: createPullRequest returns the pull request, or throws
CreatePullRequestDone ==
  /\ pc = "pr:create"
  /\ \E res \in Responses(Len(calls)) :
       /\ calls' = Respond(calls, Len(calls), res)
       /\ ghPulls' = IF res = "ok" THEN Append(ghPulls, calls[Len(calls)].arg.body)
                     ELSE ghPulls
       /\ loc' = IF res = "ok" THEN [loc EXCEPT !.pr = Some(Len(ghPulls) + 1)]
                 ELSE [loc EXCEPT !.threw = "remote"]
       /\ outcome' = IF res = "ok" THEN "returned" ELSE "threw"
  /\ pc' = "done"
  /\ UNCHANGED <<req, envelope, ghRefs, linkHist, served, proc, past, parked>>

NextTemplate ==
  \/ \E r \in TemplateCalls : CreatePullRequestCalled(r)
  \/ GetContentDone
  \/ CreatePullRequestDone
  \/ Reply

SpecTemplate == Init /\ [][NextTemplate]_vars

\* the answers to the lookup so far that were files
IsFile(d) == d.kind = "file"

\* the lookup was made and getPRTemplate has returned
LookedUp == Len(loc.results) >= 1 /\ pc \in {"pr:create", "done"}

\* C24: the PR-template lookup is best-effort and never fails: it tries the
\* candidate paths in their fixed order, returns the content of the first one
\* that can be read, returns none when every candidate fails, and queries no
\* candidate after the first one that was read; a lookup failure never makes
\* createPullRequest fail.
C24_TemplateLookupBestEffort ==
  req.name = "createPullRequest" =>
    LET gets == SelectSeq(calls, LAMBDA c : c.api = "repos.getContent")
    IN  /\ Len(gets) <= Len(TemplatePaths)
        /\ \A k \in 1..Len(gets) :
             /\ calls[k] = gets[k]
             /\ gets[k].arg.path = TemplatePaths[k]
             /\ k < Len(gets) => ~IsFile(loc.results[k])
        /\ Len(gets) >= 1 => Truthy(req.args.issueId) /\ ~Truthy(req.args.body)
        /\ LookedUp =>
             /\ Len(loc.results) = Len(gets)
             /\ IF IsFile(loc.results[Len(gets)])
                THEN loc.read = Some(loc.results[Len(gets)].content[1][2])
                ELSE Len(gets) = Len(TemplatePaths) /\ loc.read = None
             /\ calls[Len(calls)].api = "pulls.create"
             /\ Len(calls) = Len(gets) + 1
        /\ (pc = "done" /\ outcome = "threw") => calls[Len(calls)].res = "fail"

\* the first two paths could not be fetched, the third was read and its content
\* became the body of the pull request that was created
C24_Witness ==
  /\ req.name = "createPullRequest"
  /\ pc = "done"
  /\ outcome = "returned"
  /\ Len(calls) = 4
  /\ calls[1].res = "fail"
  /\ calls[2].res = "fail"
  /\ calls[3].arg.path = "docs/pull_request_template.md"
  /\ loc.read = Some(TextPlain)
  /\ ghPulls[Len(ghPulls)] = Some(TextPlain)

\* C25: create_issue analyses every markdown image in the issue description and
\* update_issue every markdown image in the updated description: for a
\* description with n image references the invocation runs the image analysis
\* n times and its result carries the n analyses.
C25_MutationToolsAnalyseImages ==
  ( /\ req.name \in {"create_issue", "update_issue"}
    /\ pc = "done"
    /\ ~IsErrorEnvelope ) =>
      /\ Count("axios.get") = Len(ScannedUrls(Arg("description")))
      /\ Len(loc.imgs) = Len(ScannedUrls(Arg("description")))

\* the url ends in .jpg, .jpeg, .png, .gif or .webp, in any case
EndsInImageExtension(url) ==
  \E e \in { <<"j", "p", "g">>, <<"j", "p", "e", "g">>, <<"p", "n", "g">>,
             <<"g", "i", "f">>, <<"w", "e", "b", "p">> } :
    EndsWith([i \in 1..Len(url) |-> Lower(url[i])], <<".">> \o e)

\* the attachments of the issue that are images, in their order
KeptAttachments(issue) ==
  SelectSeq(issue.attachments, LAMBDA a : a # None /\ EndsInImageExtension(a[1]))

\* C26: in get_issue the returned attachments are exactly the issue's
\* attachments whose url ends in one of the image extensions jpg, jpeg, png,
\* gif, webp (case-insensitive), in their original order, each carrying an
\* analysis; an attachment with any other url (also an image url followed by
\* a query string) or with no url is left out and no image fetch is made for it.
C26_AttachmentsAreTheImageOnes ==
  (req.name = "get_issue" /\ pc = "done" /\ ~IsErrorEnvelope) =>
    LET kept == KeptAttachments(loc.issue[1])
        out == envelope[1].text[2].attachments
        emb == envelope[1].text[2].embeddedImages
        gets == SelectSeq(calls, LAMBDA c : c.api = "axios.get")
    IN  /\ Len(out) = Len(kept)
        /\ \A i \in 1..Len(kept) :
             /\ out[i].url = kept[i][1]
             /\ out[i].analysis \in {"data", "error"}
        /\ Len(gets) = Len(emb) + Len(kept)
        /\ \A i \in 1..Len(kept) : gets[Len(emb) + i].arg = kept[i][1]

\* get_issue has returned "a.PNG" and "c.jpeg" of the four attachments
C26_Witness ==
  /\ req.name = "get_issue"
  /\ pc = "done"
  /\ ~IsErrorEnvelope
  /\ Len(loc.issue[1].attachments) = 4
  /\ Len(envelope[1].text[2].attachments) = 2
  /\ envelope[1].text[2].attachments[1].url = UrlPng
  /\ envelope[1].text[2].attachments[2].url = UrlJpeg

IssueListTools == {"list_issues", "search_issues"}

\* the lookup the callback of node n is waiting for, "" when it waits for none
Awaited(n) == IF n.call = 0 THEN "" ELSE calls[n.call].api

\* the callback of node n has issued its assignee lookup
AssigneeIssued(n) ==
  n.kind.hasAssignee /\ \A j \in 1..Len(n.todo) : n.todo[j] # "issue.assignee"

\* the records list_issues / search_issues returns for the nodes
Flattened(nodes) ==
  [ i \in 1..Len(nodes) |->
      [ status |-> IF nodes[i].kind.hasState THEN "name" ELSE "Unknown",
        assignee |-> IF nodes[i].kind.hasAssignee THEN "name" ELSE "Unassigned" ] ]

\* C27 as stated: the assignee lookup of an issue is issued without waiting
\* for that issue's status lookup to complete.
C27_LookupsOfAnIssueConcurrent ==
  (req.name \in IssueListTools /\ pc = "list:nodes") =>
    \A i \in 1..Len(loc.nodes) :
      loc.nodes[i].kind.hasAssignee => AssigneeIssued(loc.nodes[i])

\* C27: list_issues (and search_issues) resolves the references of the returned
\* issues concurrently across issues, and within one issue the status lookup
\* first and the assignee lookup only once the status lookup has completed; the
\* result is flattened only after all lookups of all issues have completed: one
\* record per returned issue in the remote order, with status "Unknown" when
\* the state reference is empty and assignee "Unassigned" when the assignee
\* reference is empty; if any lookup fails the invocation is an error result.
C27_LookupsAcrossIssuesConcurrent ==
  (req.name \in IssueListTools /\ loc.nodes # <<>>) =>
    /\ \A i \in 1..Len(loc.nodes) :
         LET n == loc.nodes[i]
         IN  /\ Awaited(n) = "issue.state" =>
                  n.todo = (IF n.kind.hasAssignee THEN <<"issue.assignee">> ELSE <<>>)
             /\ Awaited(n) = "issue.assignee" => n.todo = <<>>
             /\ (n.kind.hasState \/ n.kind.hasAssignee) =>
                  Len(n.todo) < Len(NodeTodo(n.kind))
             /\ (pc = "list:nodes" /\ n.call # 0) => calls[n.call].res = "pending"
    /\ Count("issue.assignee")
         = Cardinality({ i \in 1..Len(loc.nodes) : AssigneeIssued(loc.nodes[i]) })
    /\ (\E k \in 1..Len(calls) : calls[k].res = "pending") =>
         pc = "list:nodes" \/ (pc = "done" /\ IsErrorEnvelope)
    /\ (\E k \in 1..Len(calls) : calls[k].res = "fail") => pc = "done" /\ IsErrorEnvelope
    /\ (pc = "done" /\ ~IsErrorEnvelope) =>
         /\ \A k \in 1..Len(calls) : calls[k].res = "ok"
         /\ envelope[1].text[2] = Flattened(loc.nodes)

\* two issues were returned, the first with a state and an assignee, the second
\* with neither; the assignee of the first was looked up after its state
C27_Witness ==
  /\ req.name = "list_issues"
  /\ pc = "done"
  /\ ~IsErrorEnvelope
  /\ Len(loc.nodes) = 2
  /\ loc.nodes[1].kind = [hasState |-> TRUE, hasAssignee |-> TRUE]
  /\ loc.nodes[2].kind = [hasState |-> FALSE, hasAssignee |-> FALSE]
  /\ Len(calls) = 3
  /\ calls[2].api = "issue.state"
  /\ calls[3].api = "issue.assignee"
  /\ envelope[1].text[2][2] = [status |-> "Unknown", assignee |-> "Unassigned"]

\* the invocation ended in the default case of the switch
UnknownToolError ==
  /\ IsErrorEnvelope
  /\ loc.threw = "unknown"
  /\ envelope[1].text = <<"Linear API error: ", "Unknown tool">>

\* C28: the schema registry and the dispatcher agree: every operation name the
\* listing advertises has a handler case, every handler case is advertised, and
\* an invocation returns the "Unknown tool" error exactly when its name is not
\* in the advertised list, in which case no remote call is made.
C28_RegistryAndDispatcherAgree ==
  /\ ToolNames = HandlerCases
  /\ pc = "done" =>
       /\ UnknownToolError <=> req.name \notin ToolNames
       /\ UnknownToolError => calls = <<>>
  /\ (pc \notin {"idle", "dispatch"} /\ req.name \notin ToolNames) => pc = "done"

\* a tool that is not advertised was invoked and answered with the error
C28_Witness ==
  /\ pc = "done"
  /\ req.name = "delete_issue"
  /\ UnknownToolError
  /\ calls = <<>>

\* the handler is suspended at an await
Awaiting == pc \notin {"idle", "dispatch", "done"}

AnyPending == \E k \in 1..Len(calls) : calls[k].res = "pending"

\* the envelope is built in the run that starts the handler or in a run that a
\* response of a remote call has woken
EnvelopeOnlyOnResponse ==
  (envelope = None /\ envelope' # None) =>
    \/ pc = "dispatch"
    \/ \E k \in 1..Len(calls) : calls[k].res = "pending" /\ calls'[k].res # "pending"

\* an envelope, once built, is not replaced: it goes to the host as it is
EnvelopeBuiltOnce ==
  envelope # None => envelope' = envelope \/ (envelope' = None /\ pc' = "idle")

\* C29 as stated: an invocation whose remote call never responds never
\* produces an envelope.
C29_PendingCallMeansNoEnvelope == envelope # None => ~AnyPending

\* C29: every dispatched invocation eventually produces its envelope provided
\* every remote call it issues eventually responds; this layer adds no timeout
\* and no cancellation: while the handler awaits a remote call it has no
\* envelope, and it builds one only when a call it awaits responds (a failed
\* call of a Promise.all ends the invocation while its siblings are still
\* outstanding); an invocation never produces more than one envelope.
C29_EnvelopeEventuallyAndOnce ==
  /\ [](Awaiting => envelope = None /\ AnyPending)
  /\ [][EnvelopeOnlyOnResponse]_vars
  /\ [][EnvelopeBuiltOnce]_vars
  /\ (pc = "dispatch") ~> (pc = "done" /\ envelope # None)

\* get_issue has returned an error envelope after one fetch failed, the other
\* fetches still outstanding
C29_Witness ==
  /\ req.name = "get_issue"
  /\ pc = "done"
  /\ IsErrorEnvelope
  /\ \E k \in 1..Len(calls) : calls[k].res = "fail"
  /\ AnyPending

----------------------------------------------------------------------------
(* Two links of the same pull request to two issues, in flight together.   *)

IssueB == <<"B">>

\* github_link_pr_to_linear for pull request 1 and issue A or issue B
LinkTwoRequests ==
  { Req("github_link_pr_to_linear",
        [NoFields EXCEPT !.owner = Some(OwnerO), !.repo = Some(RepoR),
                         !.pullNumber = Some(1), !.issueId = Some(i)]) :
      i \in {IssueA, IssueB} }

NextLink ==
  \/ \E r \in LinkTwoRequests : ReceiveGitHub(r)
  \/ \E r \in LinkTwoRequests : ReceiveWhileSuspended(r)
  \/ Resume
  \/ LinkPrStart
  \/ LinkGot
  \/ LinkUpdated
  \/ ConcurrentReply

SpecLink == Init /\ [][NextLink]_vars

\* both links have completed: the last two bodies written are those of two
\* links of the same pull request to different issues, and no handler is left
BothLinked ==
  /\ pc = "idle"
  /\ parked = <<>>
  /\ Len(linkHist) = 2
  /\ linkHist[1].pull = linkHist[2].pull
  /\ linkHist[1].issueId # linkHist[2].issueId

\* C30: linking is safe under interleaving: for any interleaving of two link
\* invocations on the same pull request with different issue identifiers A and
\* B, once both have completed the body contains both "Fixes A" and "Fixes B"
\* and still contains the original body text (no lost update).
C30_NoLostUpdate ==
  BothLinked =>
    LET body == OrElse(ghPulls[linkHist[1].pull], Empty)
    IN  /\ Includes(body, Fixes \o ToStr(linkHist[1].issueId))
        /\ Includes(body, Fixes \o ToStr(linkHist[2].issueId))
        /\ Includes(body, TextPlain)

====
